---- MODULE Spec2Model ----
(***************************************************************************)
(* storyshort: the recording session engine.                               *)
(*                                                                         *)
(* AudioRecorder (StartRecording / StopRecording / recordAudio /           *)
(* SaveAudio / compressAudio), driven by                                   *)
(*   - a sequential controller that keeps the recorder's contract (SpecRec)*)
(*   - the encoder alone on arbitrary buffers (SpecEnc)                    *)
(*   - the Bubble Tea TUI of ui.go (SpecTUI)                               *)
(*   - the Fyne GUI (SpecGUI)                                              *)
(***************************************************************************)
EXTENDS Integers, Sequences, FiniteSets, TLC

\* ---------------------------------------------------------------- bounds
\* number of StartRecording calls (capture goroutines) in one run
MaxSessions == 2
\* number of bytes one capture process emits before it falls silent, under a
\* front end
MaxStream == 2
\* the same where the sequential controller also calls SaveAudio (SpecRecSave)
MaxStreamRec == 3
\* longest buffer handed to the encoder in SpecEnc
MaxLen == 4
\* number of tea.Cmd goroutines of the TUI in flight
MaxCmds == 1
\* number of runes the user types into the token input
MaxTokenLen == 2
\* number of processRecording goroutines of the GUI in flight
MaxBg == 1
\* number of tea.Cmd goroutines in flight while one recording is stopped (SpecStop)
MaxStops == 2
\* longest title and longest summary text the provider returns (SpecPipe)
MaxTitleLen == 2
MaxSummaryLen == 3

\* ------------------------------------------------------ program constants
sampleRate == 44100
channels == 1
bitsPerSample == 16

Tasks == 1..MaxSessions
Nil == 0
AllTools == {"sox", "rec", "ffmpeg"}
NoFile == [exists |-> FALSE]

VARIABLES
    isRecording,    \* ar.isRecording
    audioData,      \* ar.audioData
    recordingDone,  \* ar.recordingDone: Nil or the id of a channel
    cmd,            \* ar.cmd: Nil or the id of the task that made the exec.Cmd
    nstarts,        \* number of StartRecording calls so far; call k makes channel k and task k
    closed,         \* closed[c]: number of close(c) executed (2 = close of closed channel)
    task,           \* task[t]: the recordAudio goroutine spawned by the t-th StartRecording
    proc,           \* proc[t]: the capture process of task t
    th,             \* th[i]: a thread that calls into the recorder
    fs,             \* files: the temporary directory with recording.wav and
                    \* recording_compressed.mp3, the number of session directories
                    \* that hold a recording and the number that hold a transcript
    tools,          \* executables that exec.LookPath finds
    goos,           \* runtime.GOOS
    joined,         \* TRUE from the return of StopRecording to the next StartRecording
    config,         \* the Config object: Nil before it is loaded, else [key |-> length of OpenAIAPIKey]
    m,              \* the Bubble Tea model of ui.go
    g,              \* the Fyne App of the GUI
    uiq,            \* functions passed to fyne.Do and not yet run by the UI thread
    pa,             \* the running call of ProcessAudio and, after it, of saveSummary
    store,          \* the save location: the session directories and their files
    net,            \* the requests the provider has received, oldest first
    stats           \* the GUI's ticker (g.ticker), the tickers made so far and the
                    \* updateStats goroutines

vars == <<isRecording, audioData, recordingDone, cmd, nstarts, closed, task, proc,
          th, fs, tools, goos, joined, config, m, g, uiq, pa, store, net, stats>>

apiVars == <<pa, store, net>>

uiVars == <<config, m, g, uiq>>

recVars == <<isRecording, audioData, recordingDone, cmd, nstarts, closed, task, proc, joined>>

\* ------------------------------------------------------------- helpers
\* the k-th byte (1-based) emitted by the capture process of task t
StreamByte(t, k) == (16 * t + k) % 256

StreamSlice(t, from, n) == [k \in 1..n |-> StreamByte(t, from + k)]

TaskInit == [pc |-> "idle", done |-> Nil, tool |-> "none", chunk |-> <<>>, pos |-> 0]
ProcInit == [st |-> "none", emitted |-> 0]
\* kind: which build's recorder the thread calls; job: what the thread runs
\* compressor: the command compressAudio has chosen
\* msg: the message a command of the TUI has returned
Thread(kind) == [kind |-> kind, job |-> "none", arg |-> Nil, pc |-> "idle", ch |-> Nil,
                 res |-> "none", created |-> FALSE, compressed |-> FALSE,
                 compressor |-> "none", msg |-> Nil]

\* a capture goroutine that has been spawned and has not yet closed its done channel
Active(t) == task[t].pc \notin {"idle", "exit"}
NoActiveCapture == \A t \in Tasks : ~Active(t)

ChanReady_NilBlocks(c) == c # Nil /\ closed[c] >= 1

ChanReady_NoBlock(c) == TRUE

\* a receive from channel c does not block
ChanReady(c) == IF c = Nil THEN TRUE ELSE closed[c] >= 1

\* ------------------------------------------------- AudioRecorder.StartRecording
StartRecording_KeepBuffer ==
    /\ nstarts < MaxSessions
    /\ nstarts' = nstarts + 1
    /\ isRecording' = TRUE
    /\ recordingDone' = nstarts + 1
    /\ audioData' = audioData
    /\ task' = [task EXCEPT ![nstarts + 1] = [TaskInit EXCEPT !.pc = "spawned"]]
    /\ joined' = FALSE
    /\ UNCHANGED <<cmd, closed, proc>>

StartRecording ==
    /\ nstarts < MaxSessions
    /\ nstarts' = nstarts + 1
    /\ isRecording' = TRUE
    /\ recordingDone' = nstarts + 1
    /\ audioData' = <<>>
    /\ task' = [task EXCEPT ![nstarts + 1] = [TaskInit EXCEPT !.pc = "spawned"]]
    /\ joined' = FALSE
    /\ UNCHANGED <<cmd, closed, proc>>

\* ---------------------------------------------------- AudioRecorder.recordAudio
\* defer close(ar.recordingDone): the channel is read when the defer statement runs
TaskDefer(t) ==
    /\ task[t].pc = "spawned"
    /\ task' = [task EXCEPT ![t].pc = "lookpath", ![t].done = recordingDone]
    /\ UNCHANGED <<isRecording, audioData, recordingDone, cmd, nstarts, closed, proc, joined,
                   th, fs, tools, goos, stats, apiVars, uiVars>>

\* the tool of the capture command: sox, else rec, else ffmpeg without a lookup
CaptureTool(installed) ==
    IF "sox" \in installed THEN "sox"
    ELSE IF "rec" \in installed THEN "rec"
    ELSE "ffmpeg"

TaskLookPath(t) ==
    /\ task[t].pc = "lookpath"
    /\ task' = [task EXCEPT ![t].pc = "pipe", ![t].tool = CaptureTool(tools)]
    /\ cmd' = t
    /\ UNCHANGED <<isRecording, audioData, recordingDone, nstarts, closed, proc, joined,
                   th, fs, tools, goos, stats, apiVars, uiVars>>

TaskPipe_NoDefer(t) ==
    /\ task[t].pc = "pipe"
    /\ \E ok \in BOOLEAN :
          task' = [task EXCEPT ![t].pc = IF ok THEN "start" ELSE "exit"]
    /\ UNCHANGED <<isRecording, audioData, recordingDone, cmd, nstarts, closed, proc, joined,
                   th, fs, tools, goos, stats, apiVars, uiVars>>

\* cmd.StdoutPipe()
TaskPipe(t) ==
    /\ task[t].pc = "pipe"
    /\ \E ok \in BOOLEAN :
          task' = [task EXCEPT ![t].pc = IF ok THEN "start" ELSE "fin"]
    /\ UNCHANGED <<isRecording, audioData, recordingDone, cmd, nstarts, closed, proc, joined,
                   th, fs, tools, goos, stats, apiVars, uiVars>>

TaskStart(t) ==
    /\ task[t].pc = "start"
    /\ \E ok \in (IF task[t].tool \in tools THEN BOOLEAN ELSE {FALSE}) :
          IF ok
          THEN /\ proc' = [proc EXCEPT ![t].st = "run"]
               /\ task' = [task EXCEPT ![t].pc = "loop"]
          ELSE /\ proc' = proc
               /\ task' = [task EXCEPT ![t].pc = "fin"]
    /\ UNCHANGED <<isRecording, audioData, recordingDone, cmd, nstarts, closed, joined,
                   th, fs, tools, goos, stats, apiVars, uiVars>>

\* for ar.isRecording
TaskLoop(t) ==
    /\ task[t].pc = "loop"
    /\ task' = [task EXCEPT ![t].pc = IF isRecording THEN "read" ELSE "close"]
    /\ UNCHANGED <<isRecording, audioData, recordingDone, cmd, nstarts, closed, proc, joined,
                   th, fs, tools, goos, stats, apiVars, uiVars>>

\* stdout.Read(buffer): blocks for a chunk of the bytes in the pipe or the end of the stream
TaskRead(t) ==
    /\ task[t].pc = "read"
    /\ \/ \E n \in 1..(proc[t].emitted - task[t].pos) :
             task' = [task EXCEPT ![t].pc = "append",
                                  ![t].chunk = StreamSlice(t, task[t].pos, n),
                                  ![t].pos = task[t].pos + n]
       \/ /\ proc[t].st # "run"
          /\ task[t].pos = proc[t].emitted
          /\ task' = [task EXCEPT ![t].pc = "close"]
    /\ UNCHANGED <<isRecording, audioData, recordingDone, cmd, nstarts, closed, proc, joined,
                   th, fs, tools, goos, stats, apiVars, uiVars>>

TaskReadErr_Discard(t) ==
    /\ task[t].pc = "read"
    /\ task' = [task EXCEPT ![t].pc = "close"]
    /\ audioData' = <<>>
    /\ UNCHANGED <<isRecording, recordingDone, cmd, nstarts, closed, proc, joined,
                   th, fs, tools, goos, stats, apiVars, uiVars>>

\* stdout.Read fails with an error other than io.EOF: logged, break
TaskReadErr(t) ==
    /\ task[t].pc = "read"
    /\ task' = [task EXCEPT ![t].pc = "close"]
    /\ UNCHANGED <<isRecording, audioData, recordingDone, cmd, nstarts, closed, proc, joined,
                   th, fs, tools, goos, stats, apiVars, uiVars>>

TaskAppend_Prepend(t) ==
    /\ task[t].pc = "append"
    /\ audioData' = task[t].chunk \o audioData
    /\ task' = [task EXCEPT ![t].pc = "loop", ![t].chunk = <<>>]
    /\ UNCHANGED <<isRecording, recordingDone, cmd, nstarts, closed, proc, joined,
                   th, fs, tools, goos, stats, apiVars, uiVars>>

TaskAppend(t) ==
    /\ task[t].pc = "append"
    /\ audioData' = audioData \o task[t].chunk
    /\ task' = [task EXCEPT ![t].pc = "loop", ![t].chunk = <<>>]
    /\ UNCHANGED <<isRecording, recordingDone, cmd, nstarts, closed, proc, joined,
                   th, fs, tools, goos, stats, apiVars, uiVars>>

\* stdout.Close()
TaskClose(t) ==
    /\ task[t].pc = "close"
    /\ task' = [task EXCEPT ![t].pc = "wait"]
    /\ UNCHANGED <<isRecording, audioData, recordingDone, cmd, nstarts, closed, proc, joined,
                   th, fs, tools, goos, stats, apiVars, uiVars>>

TaskWait_NoWait(t) ==
    /\ task[t].pc = "wait"
    /\ task' = [task EXCEPT ![t].pc = "fin"]
    /\ UNCHANGED <<isRecording, audioData, recordingDone, cmd, nstarts, closed, proc, joined,
                   th, fs, tools, goos, stats, apiVars, uiVars>>

\* cmd.Wait(): returns once the process has exited, and reaps it
TaskWait(t) ==
    /\ task[t].pc = "wait"
    /\ proc[t].st = "dead"
    /\ proc' = [proc EXCEPT ![t].st = "reaped"]
    /\ task' = [task EXCEPT ![t].pc = "fin"]
    /\ UNCHANGED <<isRecording, audioData, recordingDone, cmd, nstarts, closed, joined,
                   th, fs, tools, goos, stats, apiVars, uiVars>>

\* the deferred close(done)
TaskFin(t) ==
    /\ task[t].pc = "fin"
    /\ closed' = [closed EXCEPT ![task[t].done] = IF @ >= 2 THEN 2 ELSE @ + 1]
    /\ task' = [task EXCEPT ![t].pc = "exit"]
    /\ UNCHANGED <<isRecording, audioData, recordingDone, cmd, nstarts, proc, joined,
                   th, fs, tools, goos, stats, apiVars, uiVars>>

\* ------------------------------------------------------ the capture process
\* length at which the stream of a capture process is cut
StreamBound == IF \E i \in DOMAIN th : th[i].kind = "recsave" THEN MaxStreamRec ELSE MaxStream

ProcEmit(t) ==
    /\ proc[t].st = "run"
    /\ task[t].pc \notin {"wait", "fin", "exit"}
    /\ proc[t].emitted < StreamBound
    /\ proc' = [proc EXCEPT ![t].emitted = @ + 1]
    /\ UNCHANGED <<isRecording, audioData, recordingDone, cmd, nstarts, closed, task, joined,
                   th, fs, tools, goos, stats, apiVars, uiVars>>

\* the process ends on its own while its pipe is open
ProcExit(t) ==
    /\ proc[t].st = "run"
    /\ task[t].pc \notin {"wait", "fin", "exit"}
    /\ proc' = [proc EXCEPT ![t].st = "dead"]
    /\ UNCHANGED <<isRecording, audioData, recordingDone, cmd, nstarts, closed, task, joined,
                   th, fs, tools, goos, stats, apiVars, uiVars>>

\* the read end of the pipe is closed: the next write ends the process
ProcSigpipe(t) ==
    /\ proc[t].st = "run"
    /\ task[t].pc = "wait"
    /\ proc' = [proc EXCEPT ![t].st = "dead"]
    /\ UNCHANGED <<isRecording, audioData, recordingDone, cmd, nstarts, closed, task, joined,
                   th, fs, tools, goos, stats, apiVars, uiVars>>

TaskStep(t) ==
    \/ TaskDefer(t) \/ TaskLookPath(t) \/ TaskPipe(t) \/ TaskStart(t)
    \/ TaskLoop(t) \/ TaskRead(t) \/ TaskReadErr(t) \/ TaskAppend(t)
    \/ TaskClose(t) \/ TaskWait(t) \/ TaskFin(t)

ProcStep(t) == ProcEmit(t) \/ ProcExit(t) \/ ProcSigpipe(t)

\* ------------------------------------------------ AudioRecorder.StopRecording
StopFlag(i) ==
    /\ th[i].pc = "stop"
    /\ isRecording' = FALSE
    /\ th' = [th EXCEPT ![i].pc = "stop_kill"]
    /\ UNCHANGED <<audioData, recordingDone, cmd, nstarts, closed, task, proc, joined,
                   fs, tools, goos, stats, apiVars, uiVars>>

Kill_Noop(p) == p

Kill_Unconditional(p) == [p EXCEPT !.st = "dead"]

\* Process.Kill(): ends a running process, an error (ignored) on one that has exited
Kill(p) == IF p.st = "run" THEN [p EXCEPT !.st = "dead"] ELSE p

StopKill(i) ==
    /\ th[i].pc = "stop_kill"
    /\ IF cmd # Nil /\ proc[cmd].st # "none"
       THEN proc' = [proc EXCEPT ![cmd] = Kill(@)]
       ELSE proc' = proc
    /\ th' = [th EXCEPT ![i].pc = "stop_wait", ![i].ch = recordingDone]
    /\ UNCHANGED <<isRecording, audioData, recordingDone, cmd, nstarts, closed, task, joined,
                   fs, tools, goos, stats, apiVars, uiVars>>

\* <-ar.recordingDone, then return nil
StopWait(i) ==
    /\ th[i].pc = "stop_wait"
    /\ ChanReady(th[i].ch)
    /\ th' = [th EXCEPT ![i].pc = "stop_ret", ![i].ch = Nil]
    /\ joined' = TRUE
    /\ UNCHANGED <<isRecording, audioData, recordingDone, cmd, nstarts, closed, task, proc,
                   fs, tools, goos, stats, apiVars, uiVars>>

StopStep(i) == StopFlag(i) \/ StopKill(i) \/ StopWait(i)


\* ----------------------------------------------------- AudioRecorder.SaveAudio
ToInt16(u) == IF u >= 32768 THEN u - 65536 ELSE u
ToUint16(v) == IF v < 0 THEN v + 65536 ELSE v

RECURSIVE BitOr(_, _)
BitOr(a, b) ==
    IF a = 0 THEN b
    ELSE IF b = 0 THEN a
    ELSE (IF a % 2 = 1 \/ b % 2 = 1 THEN 1 ELSE 0) + 2 * BitOr(a \div 2, b \div 2)

\* int16(x) << 8
Shl8(x) == ToInt16((ToUint16(x) * 256) % 65536)

Sample_BigEndian(lo, hi) == ToInt16(BitOr(ToUint16(hi), ToUint16(Shl8(lo))))

\* int16(lo) | int16(hi)<<8
Sample(lo, hi) == ToInt16(BitOr(ToUint16(lo), ToUint16(Shl8(hi))))

\* samples := make([]wav.Sample, len/2); samples[i].Values[0] = int(sample)
Samples(data) ==
    [k \in 1..(Len(data) \div 2) |->
        IF (k - 1) * 2 + 1 < Len(data) THEN Sample(data[2 * k - 1], data[2 * k]) ELSE 0]

\* writer.WriteSamples at 16 bits: each value as uint16, low byte first
RECURSIVE WavBytes(_)
WavBytes(samples) ==
    IF samples = <<>> THEN <<>>
    ELSE <<ToUint16(Head(samples)) % 256, ToUint16(Head(samples)) \div 256>>
         \o WavBytes(Tail(samples))

\* wav.NewWriter(file, uint32(len/2), channels, sampleRate, bitsPerSample) on a new file
WavHeader(data) ==
    [exists |-> TRUE, numSamples |-> Len(data) \div 2, numChannels |-> channels,
     sampleRate |-> sampleRate, bitsPerSample |-> bitsPerSample, data |-> <<>>]

SaveCheck_NoGuard(i) ==
    /\ th[i].pc = "save"
    /\ th' = [th EXCEPT ![i].pc = "save_create", ![i].res = "none",
                        ![i].created = FALSE, ![i].compressed = FALSE,
                        ![i].compressor = "none"]
    /\ UNCHANGED <<recVars, fs, tools, goos, stats, apiVars, uiVars>>

\* if len(ar.audioData) == 0 { return "", fmt.Errorf("no_audio_data") }
SaveCheck(i) ==
    /\ th[i].pc = "save"
    /\ IF Len(audioData) = 0
       THEN th' = [th EXCEPT ![i].pc = "save_ret", ![i].res = "no_audio_data",
                             ![i].created = FALSE, ![i].compressed = FALSE,
                        ![i].compressor = "none"]
       ELSE th' = [th EXCEPT ![i].pc = "save_create", ![i].res = "none",
                             ![i].created = FALSE, ![i].compressed = FALSE,
                        ![i].compressor = "none"]
    /\ UNCHANGED <<recVars, fs, tools, goos, stats, apiVars, uiVars>>

\* os.Create and wav.NewWriter
SaveCreate(i) ==
    /\ th[i].pc = "save_create"
    /\ \E ok \in (IF fs.tempDir THEN BOOLEAN ELSE {FALSE}) :
          IF ok
          THEN /\ fs' = [fs EXCEPT !.wav = WavHeader(audioData)]
               /\ th' = [th EXCEPT ![i].pc = "save_write", ![i].created = TRUE]
          ELSE /\ fs' = fs
               /\ th' = [th EXCEPT ![i].pc = "save_ret", ![i].res = "io_error"]
    /\ UNCHANGED <<recVars, tools, goos, stats, apiVars, uiVars>>

\* the sample loop and writer.WriteSamples
SaveWrite(i) ==
    /\ th[i].pc = "save_write"
    /\ \E ok \in BOOLEAN :
          IF ok
          THEN /\ fs' = [fs EXCEPT !.wav = IF @.exists
                                          THEN [@ EXCEPT !.data = WavBytes(Samples(audioData))]
                                          ELSE @]
               /\ th' = [th EXCEPT ![i].pc = IF th[i].kind = "tui" THEN "save_ret"
                                             ELSE "save_compress",
                                   ![i].res = "wav"]
          ELSE /\ fs' = fs
               /\ th' = [th EXCEPT ![i].pc = "save_ret", ![i].res = "io_error"]
    /\ UNCHANGED <<recVars, tools, goos, stats, apiVars, uiVars>>

\* ------------------------------------------------- AudioRecorder.compressAudio
CompressTool_SoxFirst(installed) ==
    IF "sox" \in installed THEN "sox"
    ELSE IF "ffmpeg" \in installed THEN "ffmpeg"
    ELSE "none"

CompressTool(installed) ==
    IF "ffmpeg" \in installed THEN "ffmpeg"
    ELSE IF "sox" \in installed THEN "sox"
    ELSE "none"

CompressAudio_RemoveOnError(f, installed, ok, out, rm) ==
    IF CompressTool(installed) = "none" THEN [fs |-> f, res |-> "wav"]
    ELSE IF ~ok THEN [fs |-> [f EXCEPT !.mp3 = out, !.wav = NoFile], res |-> "wav"]
    ELSE IF out = "none" THEN [fs |-> [f EXCEPT !.mp3 = out], res |-> "wav"]
    ELSE IF ~f.wav.exists THEN [fs |-> [f EXCEPT !.mp3 = out], res |-> "wav"]
    ELSE [fs |-> [f EXCEPT !.mp3 = out, !.wav = IF rm THEN NoFile ELSE @], res |-> "mp3"]

\* out: what the transcoder leaves at the compressed path; ok: its exit status;
\* rm: os.Remove(inputPath) succeeds (its error is not looked at)
CompressAudio(f, installed, ok, out, rm) ==
    IF CompressTool(installed) = "none" THEN [fs |-> f, res |-> "wav"]
    ELSE IF ~ok THEN [fs |-> [f EXCEPT !.mp3 = out], res |-> "wav"]
    ELSE IF out = "none" THEN [fs |-> [f EXCEPT !.mp3 = out], res |-> "wav"]
    ELSE IF ~f.wav.exists THEN [fs |-> [f EXCEPT !.mp3 = out], res |-> "wav"]
    ELSE [fs |-> [f EXCEPT !.mp3 = out, !.wav = IF rm THEN NoFile ELSE @], res |-> "mp3"]

SaveCompress(i) ==
    /\ th[i].pc = "save_compress"
    /\ \E ok \in BOOLEAN, out \in {"none", "empty", "full"}, rm \in BOOLEAN :
          /\ ok => (fs.wav.exists /\ fs.tempDir)
          /\ (~fs.tempDir) => out = "none"
          /\ LET r == CompressAudio(fs, tools, ok, out, rm) IN
                /\ fs' = r.fs
                /\ th' = [th EXCEPT ![i].pc = "save_ret", ![i].res = r.res,
                                    ![i].compressed = TRUE,
                                    ![i].compressor = CompressTool(tools)]
    /\ UNCHANGED <<recVars, tools, goos, stats, apiVars, uiVars>>

SaveStep(i) == SaveCheck(i) \/ SaveCreate(i) \/ SaveWrite(i) \/ SaveCompress(i)

\* ------------------------------------------------------------ the controller
CtlStart ==
    /\ th["ctl"].pc = "idle"
    /\ NoActiveCapture
    /\ StartRecording
    /\ UNCHANGED <<th, fs, tools, goos, stats, apiVars, uiVars>>

CtlStop ==
    /\ th["ctl"].pc = "idle"
    /\ th' = [th EXCEPT !["ctl"].pc = "stop"]
    /\ UNCHANGED <<recVars, fs, tools, goos, stats, apiVars, uiVars>>

CtlStopRet ==
    /\ th["ctl"].pc = "stop_ret"
    /\ th' = [th EXCEPT !["ctl"].pc = "idle"]
    /\ UNCHANGED <<recVars, fs, tools, goos, stats, apiVars, uiVars>>

CtlSave ==
    /\ th["ctl"].pc = "idle"
    /\ NoActiveCapture
    /\ th' = [th EXCEPT !["ctl"].pc = "save"]
    /\ UNCHANGED <<recVars, fs, tools, goos, stats, apiVars, uiVars>>

CtlSaveRet ==
    /\ th["ctl"].pc = "save_ret"
    /\ th' = [th EXCEPT !["ctl"].pc = "idle"]
    /\ UNCHANGED <<recVars, fs, tools, goos, stats, apiVars, uiVars>>

InitRecorder ==
    /\ isRecording = FALSE
    /\ audioData = <<>>
    /\ recordingDone = Nil
    /\ cmd = Nil
    /\ nstarts = 0
    /\ closed = [c \in Tasks |-> 0]
    /\ task = [t \in Tasks |-> TaskInit]
    /\ proc = [t \in Tasks |-> ProcInit]
    /\ joined = FALSE

\* g.ticker is nil and no updateStats goroutine exists
NoStats ==
    [ticker |-> Nil,
     stopped |-> [k \in Tasks |-> FALSE],
     tick |-> [k \in Tasks |-> 0],
     upd |-> [k \in Tasks |-> [pc |-> "none", ch |-> Nil]]]

InitNoStats == stats = NoStats

\* the provider pipeline is taken as one step (Processed)
InitNoApi ==
    /\ pa = Nil
    /\ store = {}
    /\ net = <<>>

\* no front end
InitNoUI ==
    /\ config = Nil
    /\ m = Nil
    /\ g = Nil
    /\ uiq = <<>>

InitRec ==
    /\ InitNoApi
    /\ InitNoStats
    /\ InitRecorder
    /\ InitNoUI
    /\ th = [i \in {"ctl"} |-> Thread("ctl")]
    /\ fs = [wav |-> NoFile, mp3 |-> "none", tempDir |-> TRUE, final |-> 0, transcripts |-> 0]
    /\ tools \in SUBSET AllTools
    /\ goos = "linux"

NextRec ==
    \/ CtlStart
    \/ CtlStop
    \/ CtlStopRet
    \/ \E i \in DOMAIN th : StopStep(i)
    \/ \E t \in Tasks : TaskStep(t)
    \/ \E t \in Tasks : ProcStep(t)

SpecRec == InitRec /\ [][NextRec]_vars

\* ------------------------------------------------ the encoder on its own
ByteVals == {0, 1, 127, 128, 255}

RECURSIVE SeqsUpTo(_, _)
SeqsUpTo(S, n) ==
    IF n = 0 THEN {<<>>}
    ELSE LET shorter == SeqsUpTo(S, n - 1) IN
         shorter \cup {Append(q, x) : q \in {r \in shorter : Len(r) = n - 1}, x \in S}

InitEnc ==
    /\ InitNoApi
    /\ InitNoStats
    /\ isRecording = FALSE
    /\ audioData \in SeqsUpTo(ByteVals, MaxLen)
    /\ recordingDone = Nil
    /\ cmd = Nil
    /\ nstarts = 0
    /\ closed = [c \in Tasks |-> 0]
    /\ task = [t \in Tasks |-> TaskInit]
    /\ proc = [t \in Tasks |-> ProcInit]
    /\ joined = FALSE
    /\ th = [i \in {"ctl"} |-> Thread("ctl")]
    /\ fs \in {[wav |-> NoFile, mp3 |-> "none", tempDir |-> TRUE, final |-> 0, transcripts |-> 0],
               [wav |-> [WavHeader(<<1, 0>>) EXCEPT !.data = <<1, 0>>], mp3 |-> "full",
                tempDir |-> TRUE, final |-> 0, transcripts |-> 0]}
    /\ tools \in {{}, {"ffmpeg"}}
    /\ goos = "linux"
    /\ InitNoUI

NextEnc ==
    \/ CtlSave
    \/ CtlSaveRet
    \/ \E i \in DOMAIN th : SaveStep(i)

SpecEnc == InitEnc /\ [][NextEnc]_vars

\* ------------------------- the recorder with SaveAudio called between sessions
InitRecSave ==
    /\ InitNoApi
    /\ InitNoStats
    /\ InitRecorder
    /\ InitNoUI
    /\ th = [i \in {"ctl"} |-> Thread("recsave")]
    /\ fs = [wav |-> NoFile, mp3 |-> "none", tempDir |-> TRUE, final |-> 0, transcripts |-> 0]
    /\ tools = {"sox"}
    /\ goos = "linux"

NextRecSave ==
    \/ NextRec
    \/ NextEnc

SpecRecSave == InitRecSave /\ [][NextRecSave]_vars

\* -------------------------- ProcessAudio / processWithOpenAI, then saveSummary
\* api: transcription or summary request fails; mkdir: createSessionDir fails;
\* rename: moving the audio file fails; summary: writing summary.txt fails
ProcessOutcomes == {"api", "mkdir", "rename", "summary", "ok"}

\* the audio file a path names is there
FileAt(f, res) == IF res = "mp3" THEN f.mp3 # "none" ELSE f.wav.exists

\* the files after processing the audio file at res with outcome out; trOk:
\* os.WriteFile of transcript.txt succeeds (its failure is a printed warning);
\* with outcome ok the temporary directory is removed
Processed(f, res, out, trOk) ==
    LET gone == IF res = "mp3" THEN [f EXCEPT !.mp3 = "none"] ELSE [f EXCEPT !.wav = NoFile]
        moved == [gone EXCEPT !.final = @ + 1,
                              !.transcripts = IF trOk THEN @ + 1 ELSE @]
    IN  CASE out \in {"api", "mkdir", "rename"} -> f
          [] out = "summary" -> moved
          [] OTHER -> [moved EXCEPT !.wav = NoFile, !.mp3 = "none", !.tempDir = FALSE]

\* ------------------------------------------ InitializeAudio, installAudioTool
Installers == {"brew", "apt-get", "yum", "dnf"}

\* what one run of a package manager does: the tool is installed and found by
\* exec.LookPath, the command exits with 0 but LookPath does not find the tool
\* (installed outside PATH), or the command fails
InstallOutcomes == {"ok", "hidden", "fail"}

isAudioToolAvailable(installed) == installed \cap AllTools # {}

Installer_InstallBrew(build, os, installed, brewOk) ==
    CASE os = "darwin" ->
            IF "brew" \in installed THEN "brew"
            ELSE IF brewOk THEN "brew" ELSE "homebrew_install_failed"
      [] os = "linux" ->
            IF "apt-get" \in installed THEN "apt-get"
            ELSE IF "yum" \in installed THEN "yum"
            ELSE IF "dnf" \in installed THEN "dnf"
            ELSE "unsupported_linux"
      [] OTHER -> "unsupported_os"

\* the package manager installAudioTool uses, or the error it returns before any
\* installation; brewOk: installBrew of the TUI build succeeds
Installer(build, os, installed, brewOk) ==
    CASE os = "darwin" ->
            IF "brew" \in installed THEN "brew"
            ELSE IF build = "gui" THEN "homebrew_required"
            ELSE IF brewOk THEN "brew" ELSE "homebrew_install_failed"
      [] os = "linux" ->
            IF "apt-get" \in installed THEN "apt-get"
            ELSE IF "yum" \in installed THEN "yum"
            ELSE IF "dnf" \in installed THEN "dnf"
            ELSE "unsupported_linux"
      [] OTHER -> "unsupported_os"

installAudioTool_IgnoreFailure(build, os, installed, brewOk, sox, ffmpeg) ==
    LET inst == Installer(build, os, installed, brewOk)
        have == IF inst = "brew" THEN installed \cup {"brew"} ELSE installed
    IN  IF inst \notin Installers THEN [err |-> inst, tools |-> installed]
        ELSE IF sox # "fail"
             THEN [err |-> "none", tools |-> IF sox = "ok" THEN have \cup {"sox"} ELSE have]
        ELSE [err |-> "none", tools |-> IF ffmpeg = "ok" THEN have \cup {"ffmpeg"} ELSE have]

\* installAudioTool: sox first, ffmpeg when the sox installation fails
installAudioTool(build, os, installed, brewOk, sox, ffmpeg) ==
    LET inst == Installer(build, os, installed, brewOk)
        have == IF inst = "brew" THEN installed \cup {"brew"} ELSE installed
    IN  IF inst \notin Installers THEN [err |-> inst, tools |-> installed]
        ELSE IF sox # "fail"
             THEN [err |-> "none", tools |-> IF sox = "ok" THEN have \cup {"sox"} ELSE have]
        ELSE IF ffmpeg # "fail"
             THEN [err |-> "none",
                   tools |-> IF ffmpeg = "ok" THEN have \cup {"ffmpeg"} ELSE have]
        ELSE [err |-> "install_failed", tools |-> have]

\* AudioRecorder.InitializeAudio
InitializeAudio(build, os, installed, brewOk, sox, ffmpeg) ==
    IF isAudioToolAvailable(installed) THEN [err |-> "none", tools |-> installed]
    ELSE installAudioTool(build, os, installed, brewOk, sox, ffmpeg)

\* ------------------------------------------------------ the TUI (ui.go, main.go)
\* length of an OpenAIAPIKey found in the configuration file
StoredKeys == {0, 11}

\* Config.HasValidToken
HasValidToken(cfg) == cfg.key # 0 /\ cfg.key > 10

Msg(type, val) == [type |-> type, val |-> val]

UserKeys == {"enter", "esc", "ctrl+c", "backspace", "q", "r"}

initialModel ==
    [state |-> "configView", err |-> FALSE, noAudioWarning |-> FALSE, tokenInput |-> 0,
     audioFile |-> "", hasConfig |-> FALSE]

NoCmd(mm) == [m |-> mm, cmd |-> "none", arg |-> Nil]
Quit(mm) == [m |-> [mm EXCEPT !.state = "quit"], cmd |-> "none", arg |-> Nil]

\* model.Update, case tea.KeyMsg
UpdateKey(mm, k) ==
    CASE mm.state = "configView" ->
            IF k = "enter"
            THEN IF mm.tokenInput > 0
                 THEN [m |-> mm, cmd |-> "saveToken",
                       arg |-> [tok |-> mm.tokenInput, cfg |-> mm.hasConfig]]
                 ELSE NoCmd(mm)
            ELSE IF k \in {"esc", "ctrl+c"} THEN Quit(mm)
            ELSE IF k = "backspace"
                 THEN NoCmd([mm EXCEPT !.tokenInput = IF @ > 0 THEN @ - 1 ELSE @])
            ELSE NoCmd([mm EXCEPT !.tokenInput = @ + 1])
      [] mm.state = "setupView" ->
            IF k \in {"ctrl+c", "q", "esc"} THEN Quit(mm) ELSE NoCmd(mm)
      [] mm.state = "recordingView" ->
            IF k \in {"ctrl+c", "q", "esc"}
            THEN [m |-> mm, cmd |-> "stopRecording", arg |-> Nil]
            ELSE NoCmd(mm)
      [] mm.state = "processingView" ->
            IF k = "ctrl+c" THEN Quit(mm) ELSE NoCmd(mm)
      [] mm.state = "completedView" ->
            IF k \in {"q", "ctrl+c", "esc"} THEN Quit(mm)
            ELSE IF k \in {"enter", "r"}
                 THEN [m |-> [mm EXCEPT !.state = "setupView", !.noAudioWarning = FALSE,
                                        !.err = FALSE],
                       cmd |-> "initializeAndStartRecording", arg |-> Nil]
            ELSE NoCmd(mm)
      [] OTHER -> NoCmd(mm)

\* model.Update: the new model and the command it returns (the spinner, window size
\* and one-second display ticks change no state modelled here and are left out)
Update(mm, msg, cfg) ==
    CASE msg.type = "KeyMsg" -> UpdateKey(mm, msg.val)
      [] msg.type = "recordingStartMsg" -> NoCmd([mm EXCEPT !.state = "recordingView"])
      [] msg.type = "recordingStoppedMsg" ->
            [m |-> [mm EXCEPT !.state = "processingView", !.audioFile = msg.val],
             cmd |-> "processWithOpenAI", arg |-> msg.val]
      [] msg.type = "processingCompleteMsg" -> NoCmd([mm EXCEPT !.state = "completedView"])
      [] msg.type = "configLoadedMsg" ->
            IF HasValidToken(cfg)
            THEN [m |-> [mm EXCEPT !.hasConfig = TRUE, !.state = "setupView"],
                  cmd |-> "initializeAndStartRecording", arg |-> Nil]
            ELSE NoCmd([mm EXCEPT !.hasConfig = TRUE])
      [] msg.type = "tokenSavedMsg" ->
            [m |-> [mm EXCEPT !.state = "setupView"],
             cmd |-> "initializeAndStartRecording", arg |-> Nil]
      [] msg.type = "noAudioDataMsg" ->
            [m |-> [mm EXCEPT !.state = "setupView", !.noAudioWarning = TRUE],
             cmd |-> "tick3s", arg |-> Nil]
      [] msg.type = "errorMsg" -> NoCmd([mm EXCEPT !.err = TRUE])
      [] OTHER -> NoCmd(mm)

FreeSlots(thr) == {i \in DOMAIN thr : thr[i].job = "none"}
LowestFree(thr) == CHOOSE i \in FreeSlots(thr) : \A j \in FreeSlots(thr) : i <= j

\* Bubble Tea runs the returned command in a goroutine of its own
Spawn(thr, job, arg) ==
    [thr EXCEPT ![LowestFree(thr)] =
        [Thread("tui") EXCEPT !.job = job, !.arg = arg,
                              !.pc = IF job = "stopRecording" THEN "stop" ELSE "run"]]

\* the program ends (tea.Quit, or a panic in a command): its memory is gone, the files stay
TuiHalt(st) ==
    /\ m' = [initialModel EXCEPT !.state = st]
    /\ th' = [i \in DOMAIN th |-> Thread("tui")]
    /\ config' = Nil
    /\ isRecording' = FALSE
    /\ audioData' = <<>>
    /\ recordingDone' = Nil
    /\ cmd' = Nil
    /\ nstarts' = 0
    /\ closed' = [c \in Tasks |-> 0]
    /\ task' = [t \in Tasks |-> TaskInit]
    /\ proc' = [t \in Tasks |-> ProcInit]
    /\ joined' = FALSE
    /\ UNCHANGED <<fs, tools, goos, stats, apiVars, g, uiq>>

\* Update has run on a message: thr is th without the goroutine that sent it
TuiApply(r, thr) ==
    IF r.m.state = "quit"
    THEN TuiHalt("quit")
    ELSE /\ m' = r.m
         /\ IF r.cmd = "none"
            THEN th' = thr
            ELSE /\ FreeSlots(thr) # {}
                 /\ th' = Spawn(thr, r.cmd, r.arg)
         /\ UNCHANGED <<recVars, fs, tools, goos, stats, apiVars, config, g, uiq>>

TuiRunning == m.state \notin {"quit", "crashed"}

\* a key pressed by the user is handled by Update
TuiUserKey(k) ==
    /\ TuiRunning
    /\ (m.state = "configView" /\ k \in {"q", "r"}) => m.tokenInput < MaxTokenLen
    /\ TuiApply(Update(m, Msg("KeyMsg", k), config), th)

\* the message a command returned is received by the event loop and handled by Update
TuiDeliver(i) ==
    /\ TuiRunning
    /\ th[i].pc = "send"
    /\ TuiApply(Update(m, th[i].msg, config), [th EXCEPT ![i] = Thread("tui")])

\* a command returns its message
Send(i, msg) == th' = [th EXCEPT ![i].pc = "send", ![i].msg = msg]

\* model.loadConfig
CmdLoadConfig(i) ==
    /\ TuiRunning
    /\ th[i].job = "loadConfig"
    /\ th[i].pc = "run"
    /\ \E r \in StoredKeys \cup {-1} :
          IF r = -1
          THEN config' = config /\ Send(i, Msg("errorMsg", "loadConfig"))
          ELSE config' = [key |-> r] /\ Send(i, Msg("configLoadedMsg", Nil))
    /\ UNCHANGED <<recVars, fs, tools, goos, stats, apiVars, m, g, uiq>>

\* model.saveToken: m.config is nil when the configuration was not loaded
CmdSaveToken(i) ==
    /\ TuiRunning
    /\ th[i].job = "saveToken"
    /\ th[i].pc = "run"
    /\ IF ~th[i].arg.cfg
       THEN TuiHalt("crashed")
       ELSE /\ config' = [key |-> th[i].arg.tok]
            /\ \E ok \in BOOLEAN :
                  Send(i, IF ok THEN Msg("tokenSavedMsg", Nil) ELSE Msg("errorMsg", "saveConfig"))
            /\ UNCHANGED <<recVars, fs, tools, goos, stats, apiVars, m, g, uiq>>

\* model.initializeAndStartRecording: AudioRecorder.initializeAudio
CmdInitializeAudio(i) ==
    /\ TuiRunning
    /\ th[i].job = "initializeAndStartRecording"
    /\ th[i].pc = "run"
    /\ \E brewOk \in BOOLEAN, sox \in InstallOutcomes, ffmpeg \in InstallOutcomes :
          LET r == InitializeAudio("tui", goos, tools, brewOk, sox, ffmpeg) IN
             /\ tools' = r.tools
             /\ IF r.err = "none"
                THEN th' = [th EXCEPT ![i].pc = "start"]
                ELSE Send(i, Msg("errorMsg", r.err))
    /\ UNCHANGED <<recVars, fs, goos, stats, apiVars, config, m, g, uiq>>

\* model.initializeAndStartRecording: StartRecording, then recordingStartMsg
CmdStartRecording(i) ==
    /\ TuiRunning
    /\ th[i].job = "initializeAndStartRecording"
    /\ th[i].pc = "start"
    /\ StartRecording
    /\ Send(i, Msg("recordingStartMsg", Nil))
    /\ UNCHANGED <<fs, tools, goos, stats, apiVars, config, m, g, uiq>>

\* model.stopRecording after StopRecording: os.MkdirAll("temp_recording")
CmdStopMkdir(i) ==
    /\ TuiRunning
    /\ th[i].job = "stopRecording"
    /\ th[i].pc = "stop_ret"
    /\ \E ok \in BOOLEAN :
          IF ok
          THEN /\ fs' = [fs EXCEPT !.tempDir = TRUE]
               /\ th' = [th EXCEPT ![i].pc = "save"]
          ELSE /\ fs' = fs
               /\ th' = [th EXCEPT ![i].pc = "ret", ![i].res = "mkdir_error"]
    /\ UNCHANGED <<recVars, tools, goos, stats, apiVars, uiVars>>

\* model.stopRecording returns noAudioDataMsg, errorMsg or recordingStoppedMsg
CmdStopReturn(i) ==
    /\ TuiRunning
    /\ th[i].job = "stopRecording"
    /\ th[i].pc \in {"ret", "save_ret"}
    /\ Send(i, IF th[i].res = "no_audio_data" THEN Msg("noAudioDataMsg", Nil)
               ELSE IF th[i].res \in {"io_error", "mkdir_error"}
                    THEN Msg("errorMsg", th[i].res)
               ELSE Msg("recordingStoppedMsg", th[i].res))
    /\ UNCHANGED <<recVars, fs, tools, goos, stats, apiVars, config, m, g, uiq>>

\* model.processWithOpenAI: processWithOpenAI, saveSummary, os.RemoveAll("temp_recording");
\* its m.audioFile = finalAudioPath writes the receiver's copy of the model, which
\* is dropped on return: processingCompleteMsg carries summaryFile and title only
CmdProcess(i) ==
    /\ TuiRunning
    /\ th[i].job = "processWithOpenAI"
    /\ th[i].pc = "run"
    /\ \E out \in ProcessOutcomes, trOk \in BOOLEAN :
          /\ (~FileAt(fs, th[i].arg)) => out = "api"
          /\ fs' = Processed(fs, th[i].arg, out, trOk)
          /\ Send(i, IF out = "ok" THEN Msg("processingCompleteMsg", Nil)
                     ELSE Msg("errorMsg", out))
    /\ UNCHANGED <<recVars, tools, goos, stats, apiVars, config, m, g, uiq>>

\* the tea.Tick of the noAudioDataMsg handler: after 3 seconds a key message 'r'
CmdTick(i) ==
    /\ TuiRunning
    /\ th[i].job = "tick3s"
    /\ th[i].pc = "run"
    /\ Send(i, Msg("KeyMsg", "r"))
    /\ UNCHANGED <<recVars, fs, tools, goos, stats, apiVars, config, m, g, uiq>>

InitTUI ==
    /\ InitNoApi
    /\ InitNoStats
    /\ InitRecorder
    /\ config = Nil
    /\ m = initialModel
    /\ g = Nil
    /\ uiq = <<>>
    /\ th = [i \in 1..MaxCmds |->
                IF i = 1 THEN [Thread("tui") EXCEPT !.job = "loadConfig", !.pc = "run"]
                ELSE Thread("tui")]
    /\ fs = [wav |-> NoFile, mp3 |-> "none", tempDir |-> FALSE, final |-> 0, transcripts |-> 0]
    /\ \E e \in {<<"linux", {"sox"}>>, <<"linux", {"apt-get"}>>,
                 <<"darwin", {}>>, <<"windows", {}>>} :
          goos = e[1] /\ tools = e[2]

NextTUI ==
    \/ \E k \in UserKeys : TuiUserKey(k)
    \/ \E i \in DOMAIN th : TuiDeliver(i)
    \/ \E i \in DOMAIN th : CmdLoadConfig(i)
    \/ \E i \in DOMAIN th : CmdSaveToken(i)
    \/ \E i \in DOMAIN th : CmdInitializeAudio(i)
    \/ \E i \in DOMAIN th : CmdStartRecording(i)
    \/ \E i \in DOMAIN th : CmdStopMkdir(i)
    \/ \E i \in DOMAIN th : CmdStopReturn(i)
    \/ \E i \in DOMAIN th : CmdProcess(i)
    \/ \E i \in DOMAIN th : CmdTick(i)
    \/ \E i \in DOMAIN th : TuiRunning /\ StopFlag(i)
    \/ \E i \in DOMAIN th : TuiRunning /\ StopKill(i)
    \/ \E i \in DOMAIN th : TuiRunning /\ StopWait(i)
    \/ \E i \in DOMAIN th : TuiRunning /\ SaveCheck(i)
    \/ \E i \in DOMAIN th : TuiRunning /\ SaveCreate(i)
    \/ \E i \in DOMAIN th : TuiRunning /\ SaveWrite(i)
    \/ \E t \in Tasks : TuiRunning /\ TaskStep(t)
    \/ \E t \in Tasks : TuiRunning /\ ProcStep(t)

SpecTUI == InitTUI /\ [][NextTUI]_vars

\* --------------------------- the TUI from the recording view, one session long
\* the program shows recordingView: the session is started, its capture process
\* runs and the capture loop is about to read, no command is in flight
InitStop ==
    /\ InitNoApi
    /\ InitNoStats
    /\ isRecording = TRUE
    /\ recordingDone = 1
    /\ cmd = 1
    /\ nstarts = 1
    /\ closed = [c \in Tasks |-> 0]
    /\ joined = FALSE
    /\ audioData = <<>>
    /\ task = [t \in Tasks |->
                  IF t = 1 THEN [TaskInit EXCEPT !.pc = "loop", !.done = 1, !.tool = "sox"]
                  ELSE TaskInit]
    /\ proc = [t \in Tasks |-> IF t = 1 THEN [ProcInit EXCEPT !.st = "run"] ELSE ProcInit]
    /\ config = [key |-> 11]
    /\ m = [initialModel EXCEPT !.state = "recordingView", !.hasConfig = TRUE]
    /\ g = Nil
    /\ uiq = <<>>
    /\ th = [i \in 1..MaxStops |-> Thread("tui")]
    /\ fs = [wav |-> NoFile, mp3 |-> "none", tempDir |-> FALSE, final |-> 0, transcripts |-> 0]
    /\ tools = {"sox"}
    /\ goos = "linux"

NextStop ==
    \/ \E k \in {"esc", "q", "ctrl+c"} : TuiUserKey(k)
    \/ \E i \in DOMAIN th : TuiDeliver(i)
    \/ \E i \in DOMAIN th : CmdStopMkdir(i)
    \/ \E i \in DOMAIN th : CmdStopReturn(i)
    \/ \E i \in DOMAIN th : CmdProcess(i)
    \/ \E i \in DOMAIN th : CmdTick(i)
    \/ \E i \in DOMAIN th : TuiRunning /\ StopFlag(i)
    \/ \E i \in DOMAIN th : TuiRunning /\ StopKill(i)
    \/ \E i \in DOMAIN th : TuiRunning /\ StopWait(i)
    \/ \E i \in DOMAIN th : TuiRunning /\ SaveCheck(i)
    \/ \E i \in DOMAIN th : TuiRunning /\ SaveCreate(i)
    \/ \E i \in DOMAIN th : TuiRunning /\ SaveWrite(i)
    \/ \E t \in Tasks : TuiRunning /\ TaskLoop(t)
    \/ \E t \in Tasks : TuiRunning /\ TaskRead(t)
    \/ \E t \in Tasks : TuiRunning /\ TaskReadErr(t)
    \/ \E t \in Tasks : TuiRunning /\ TaskAppend(t)
    \/ \E t \in Tasks : TuiRunning /\ TaskClose(t)
    \/ \E t \in Tasks : TuiRunning /\ TaskWait(t)
    \/ \E t \in Tasks : TuiRunning /\ TaskFin(t)
    \/ \E t \in Tasks : TuiRunning /\ ProcStep(t)

SpecStop == InitStop /\ [][NextStop]_vars

\* ------------------------------------------------------------ the GUI (App)
UiThread == 0

initialApp == [isRecording |-> FALSE, status |-> "Ready to record"]

\* App.showError: the dialog, the status label, and the recording flag reset
showError(gg) == [gg EXCEPT !.isRecording = FALSE, !.status = "Error"]

\* if g.ticker != nil { g.ticker.Stop() }: no more ticks are sent; the channel
\* is not closed and a tick already in it stays
StopTicker(s) == IF s.ticker = Nil THEN s ELSE [s EXCEPT !.stopped[s.ticker] = TRUE]

\* App.showError stops the ticker when g.isRecording is set
showErrorStats(gg, s) == IF gg.isRecording THEN StopTicker(s) ELSE s

\* g.ticker = time.NewTicker(time.Second); go g.updateStats()
StartTicker(s, k) ==
    [s EXCEPT !.ticker = k, !.stopped[k] = FALSE, !.tick[k] = 0,
              !.upd[k] = [pc |-> "spawned", ch |-> Nil]]

\* the Fyne event loop is not inside a handler
GuiIdle == th[UiThread].pc = "idle"

\* App.toggleRecording with g.isRecording false: App.startRecording
GuiStartRecording ==
    /\ GuiIdle
    /\ ~g.isRecording
    /\ IF ~HasValidToken(config)
       THEN g' = showError(g) /\ UNCHANGED <<recVars, tools, stats>>
       ELSE \E brewOk \in BOOLEAN, sox \in InstallOutcomes, ffmpeg \in InstallOutcomes :
               LET r == InitializeAudio("gui", goos, tools, brewOk, sox, ffmpeg) IN
                  /\ tools' = r.tools
                  /\ IF r.err # "none"
                     THEN g' = showError(g) /\ UNCHANGED <<recVars, stats>>
                     ELSE /\ StartRecording
                          /\ g' = [g EXCEPT !.isRecording = TRUE, !.status = "Recording"]
                          /\ stats' = StartTicker(stats, nstarts + 1)
    /\ UNCHANGED <<th, fs, goos, apiVars, config, m, uiq>>

\* App.toggleRecording with g.isRecording true: App.stopRecording calls StopRecording
GuiStopRecording ==
    /\ GuiIdle
    /\ g.isRecording
    /\ \E i \in 1..MaxBg : th[i].job = "none"
    /\ th' = [th EXCEPT ![UiThread].pc = "stop"]
    /\ stats' = StopTicker(stats)
    /\ UNCHANGED <<recVars, fs, tools, goos, apiVars, uiVars>>

\* App.stopRecording after StopRecording returned: go g.processRecording()
GuiStopReturn ==
    /\ th[UiThread].pc = "stop_ret"
    /\ g' = [g EXCEPT !.isRecording = FALSE, !.status = "Processing"]
    /\ LET i == CHOOSE j \in 1..MaxBg : th[j].job = "none" IN
          th' = [th EXCEPT ![UiThread].pc = "idle",
                           ![i] = [Thread("gui") EXCEPT !.job = "processRecording",
                                                        !.pc = "run"]]
    /\ UNCHANGED <<recVars, fs, tools, goos, stats, apiVars, config, m, uiq>>

\* App.onLanguageChanged: config.Save, showError when it fails
GuiLanguageChanged ==
    /\ GuiIdle
    /\ \E ok \in BOOLEAN :
          IF ok THEN UNCHANGED <<g, stats>>
          ELSE g' = showError(g) /\ stats' = showErrorStats(g, stats)
    /\ UNCHANGED <<recVars, th, fs, tools, goos, apiVars, config, m, uiq>>

\* fyne.Do(func): the goroutine hands a callback to the UI thread and returns
Post(i, cb) ==
    /\ uiq' = Append(uiq, cb)
    /\ th' = [th EXCEPT ![i] = Thread("gui")]

\* the UI thread runs the next callback given to fyne.Do
GuiCallback ==
    /\ GuiIdle
    /\ uiq # <<>>
    /\ uiq' = Tail(uiq)
    /\ g' = CASE Head(uiq) = "showError" -> showError(g)
              [] Head(uiq) = "noAudio" -> [g EXCEPT !.status = "No audio"]
              [] OTHER -> [g EXCEPT !.status = "Ready to record"]
    /\ stats' = IF Head(uiq) = "showError" THEN showErrorStats(g, stats) ELSE stats
    /\ UNCHANGED <<recVars, th, fs, tools, goos, apiVars, config, m>>

\* App.processRecording: os.MkdirAll(tempDir)
BgMkdir(i) ==
    /\ th[i].job = "processRecording"
    /\ th[i].pc = "run"
    /\ \E ok \in BOOLEAN :
          IF ok
          THEN /\ fs' = [fs EXCEPT !.tempDir = TRUE]
               /\ th' = [th EXCEPT ![i].pc = "save"]
               /\ uiq' = uiq
          ELSE /\ fs' = fs
               /\ Post(i, "showError")
    /\ UNCHANGED <<recVars, tools, goos, stats, apiVars, config, m, g>>

\* App.processRecording: SaveAudio has returned
BgSaveReturn(i) ==
    /\ th[i].job = "processRecording"
    /\ th[i].pc = "save_ret"
    /\ CASE th[i].res = "no_audio_data" -> Post(i, "noAudio")
         [] th[i].res = "io_error" -> Post(i, "showError")
         [] OTHER -> th' = [th EXCEPT ![i].pc = "process"] /\ uiq' = uiq
    /\ UNCHANGED <<recVars, fs, tools, goos, stats, apiVars, config, m, g>>

\* App.processRecording: ProcessAudio, saveSummaryFunc, os.RemoveAll(tempDir)
BgProcess(i) ==
    /\ th[i].job = "processRecording"
    /\ th[i].pc = "process"
    /\ \E out \in ProcessOutcomes, trOk \in BOOLEAN :
          /\ (~FileAt(fs, th[i].res)) => out = "api"
          /\ fs' = Processed(fs, th[i].res, out, trOk)
          /\ Post(i, IF out = "ok" THEN "showResults" ELSE "showError")
    /\ UNCHANGED <<recVars, tools, goos, stats, apiVars, config, m, g>>

InitGUI ==
    /\ InitNoApi
    /\ InitNoStats
    /\ InitRecorder
    /\ config \in {[key |-> k] : k \in StoredKeys}
    /\ m = Nil
    /\ g = initialApp
    /\ uiq = <<>>
    /\ th = [i \in 0..MaxBg |-> Thread("gui")]
    /\ fs = [wav |-> NoFile, mp3 |-> "none", tempDir |-> FALSE, final |-> 0, transcripts |-> 0]
    /\ \E e \in {<<"darwin", {"sox"}>>, <<"darwin", {"brew"}>>} :
          goos = e[1] /\ tools = e[2]

NextGUI ==
    \/ GuiStartRecording
    \/ GuiStopRecording
    \/ GuiStopReturn
    \/ GuiLanguageChanged
    \/ GuiCallback
    \/ StopFlag(UiThread)
    \/ StopKill(UiThread)
    \/ StopWait(UiThread)
    \/ \E i \in 1..MaxBg : BgMkdir(i)
    \/ \E i \in 1..MaxBg : SaveCheck(i)
    \/ \E i \in 1..MaxBg : SaveCreate(i)
    \/ \E i \in 1..MaxBg : SaveWrite(i)
    \/ \E i \in 1..MaxBg : SaveCompress(i)
    \/ \E i \in 1..MaxBg : BgSaveReturn(i)
    \/ \E i \in 1..MaxBg : BgProcess(i)
    \/ \E t \in Tasks : TaskStep(t)
    \/ \E t \in Tasks : ProcStep(t)

SpecGUI == InitGUI /\ [][NextGUI]_vars

\* ------------------------------------------- App.updateStats and its ticker
\* go g.updateStats() begins: for range g.ticker.C evaluates g.ticker.C once
UpdBegin(k) ==
    /\ stats.upd[k].pc = "spawned"
    /\ stats' = [stats EXCEPT !.upd[k] = [pc |-> "wait", ch |-> stats.ticker]]
    /\ UNCHANGED <<recVars, th, fs, tools, goos, apiVars, uiVars>>

\* a running ticker sends a tick when its channel, of capacity 1, is empty
TickerFire(c) ==
    /\ stats.upd[c].pc # "none"
    /\ ~stats.stopped[c]
    /\ stats.tick[c] = 0
    /\ stats' = [stats EXCEPT !.tick[c] = 1]
    /\ UNCHANGED <<recVars, th, fs, tools, goos, apiVars, uiVars>>

\* updateStats receives a tick: break when g.isRecording is false, else the
\* labels are refreshed through fyne.Do
UpdRecv(k) ==
    /\ stats.upd[k].pc = "wait"
    /\ stats.tick[stats.upd[k].ch] = 1
    /\ stats' = [stats EXCEPT !.tick[stats.upd[k].ch] = 0,
                              !.upd[k].pc = IF g.isRecording THEN "wait" ELSE "exit"]
    /\ UNCHANGED <<recVars, th, fs, tools, goos, apiVars, uiVars>>

\* the GUI with one stored key and one platform, and its updateStats goroutines
InitStats ==
    /\ InitNoApi
    /\ InitNoStats
    /\ InitRecorder
    /\ config = [key |-> 11]
    /\ m = Nil
    /\ g = initialApp
    /\ uiq = <<>>
    /\ th = [i \in 0..MaxBg |-> Thread("gui")]
    /\ fs = [wav |-> NoFile, mp3 |-> "none", tempDir |-> FALSE, final |-> 0, transcripts |-> 0]
    /\ goos = "darwin"
    /\ tools = {"sox"}

\* the record button is the only control used, and the processRecording
\* goroutines are left where App.stopRecording started them
NextStats ==
    \/ GuiStartRecording
    \/ GuiStopRecording
    \/ GuiStopReturn
    \/ StopFlag(UiThread)
    \/ StopKill(UiThread)
    \/ StopWait(UiThread)
    \/ \E t \in Tasks : TaskStep(t)
    \/ \E t \in Tasks : ProcStep(t)
    \/ \E k \in Tasks : UpdBegin(k)
    \/ \E c \in Tasks : TickerFire(c)
    \/ \E k \in Tasks : UpdRecv(k)

SpecStats == InitStats /\ [][NextStats]_vars

\* the goroutines, the handler that is running and a ticker that has not been
\* stopped keep going; the user may stop pressing the button
FairStats ==
    /\ \A t \in Tasks :
          /\ WF_vars(TaskDefer(t)) /\ WF_vars(TaskLookPath(t)) /\ WF_vars(TaskPipe(t))
          /\ WF_vars(TaskStart(t)) /\ WF_vars(TaskLoop(t)) /\ WF_vars(TaskRead(t))
          /\ WF_vars(TaskAppend(t)) /\ WF_vars(TaskClose(t)) /\ WF_vars(TaskWait(t))
          /\ WF_vars(TaskFin(t)) /\ WF_vars(ProcSigpipe(t))
          /\ WF_vars(UpdBegin(t)) /\ WF_vars(UpdRecv(t)) /\ WF_vars(TickerFire(t))
    /\ WF_vars(StopStep(UiThread))
    /\ WF_vars(GuiStopReturn)

FairSpecStats == InitStats /\ [][NextStats]_vars /\ FairStats

\* ------------------------------- App.processRecording on an arbitrary buffer
\* the recorder after one session that was started and stopped
InitStopped ==
    /\ isRecording = FALSE
    /\ recordingDone = 1
    /\ cmd = 1
    /\ nstarts = 1
    /\ closed = [c \in Tasks |-> IF c = 1 THEN 1 ELSE 0]
    /\ task = [t \in Tasks |-> IF t = 1 THEN [TaskInit EXCEPT !.pc = "exit", !.done = 1]
                               ELSE TaskInit]
    /\ proc = [t \in Tasks |-> ProcInit]
    /\ joined = TRUE

\* App.stopRecording has just launched processRecording; the temporary directory
\* is absent or holds what an earlier session left behind
InitProc ==
    /\ InitNoApi
    /\ InitNoStats
    /\ InitStopped
    /\ audioData \in SeqsUpTo({0, 255}, MaxLen)
    /\ config = [key |-> 11]
    /\ m = Nil
    /\ g = [isRecording |-> FALSE, status |-> "Processing"]
    /\ uiq = <<>>
    /\ th = [i \in 0..MaxBg |->
                IF i = 1 THEN [Thread("gui") EXCEPT !.job = "processRecording", !.pc = "run"]
                ELSE Thread("gui")]
    /\ fs \in {[wav |-> NoFile, mp3 |-> "none", tempDir |-> FALSE, final |-> 0,
                transcripts |-> 0],
               [wav |-> [WavHeader(<<1, 0>>) EXCEPT !.data = <<1, 0>>], mp3 |-> "full",
                tempDir |-> TRUE, final |-> 0, transcripts |-> 0]}
    /\ tools \in {{"rec"}, {"sox"}, {"ffmpeg"}, {"sox", "ffmpeg"}}
    /\ goos = "darwin"

NextProc ==
    \/ GuiCallback
    \/ \E i \in 1..MaxBg : BgMkdir(i)
    \/ \E i \in 1..MaxBg : SaveCheck(i)
    \/ \E i \in 1..MaxBg : SaveCreate(i)
    \/ \E i \in 1..MaxBg : SaveWrite(i)
    \/ \E i \in 1..MaxBg : SaveCompress(i)
    \/ \E i \in 1..MaxBg : BgSaveReturn(i)
    \/ \E i \in 1..MaxBg : BgProcess(i)

SpecProc == InitProc /\ [][NextProc]_vars

\* ------------- App.processRecording of two sessions stopped one after the other
\* the processRecording goroutines of an earlier session and of the next one
OverlapThreads == 1..(MaxBg + 1)

\* the second App.stopRecording has just launched processRecording while the
\* goroutine of the session before has not run yet; the buffer is the one of
\* the second session
InitOverlap ==
    /\ InitNoApi
    /\ InitNoStats
    /\ InitStopped
    /\ audioData \in SeqsUpTo({0, 255}, 2)
    /\ config = [key |-> 11]
    /\ m = Nil
    /\ g = [isRecording |-> FALSE, status |-> "Processing"]
    /\ uiq = <<>>
    /\ th = [i \in {UiThread} \cup OverlapThreads |->
                IF i = UiThread THEN Thread("gui")
                ELSE [Thread("gui") EXCEPT !.job = "processRecording", !.pc = "run"]]
    /\ fs = [wav |-> NoFile, mp3 |-> "none", tempDir |-> FALSE, final |-> 0, transcripts |-> 0]
    /\ tools \in {{"rec"}, {"sox"}}
    /\ goos = "darwin"

NextOverlap ==
    \/ GuiCallback
    \/ \E i \in OverlapThreads : BgMkdir(i)
    \/ \E i \in OverlapThreads : SaveCheck(i)
    \/ \E i \in OverlapThreads : SaveCreate(i)
    \/ \E i \in OverlapThreads : SaveWrite(i)
    \/ \E i \in OverlapThreads : SaveCompress(i)
    \/ \E i \in OverlapThreads : BgSaveReturn(i)
    \/ \E i \in OverlapThreads : BgProcess(i)

SpecOverlap == InitOverlap /\ [][NextOverlap]_vars

\* ---------------- acquisition and start, as both front ends call the recorder
\* (model.initializeAndStartRecording, App.startRecording): InitializeAudio, and
\* StartRecording only when it returned nil. th["ctl"].kind is the build,
\* th["ctl"].res the error the caller got, th["ctl"].arg what the package manager
\* did when an installation was needed.
\* no installation was run
NoInstall == [brewOk |-> FALSE, sox |-> "none", ffmpeg |-> "none"]

AcqInitializeAudio ==
    /\ th["ctl"].pc = "idle"
    /\ NoActiveCapture
    /\ \E brewOk \in BOOLEAN, sox \in InstallOutcomes, ffmpeg \in InstallOutcomes :
          LET r == InitializeAudio(th["ctl"].kind, goos, tools, brewOk, sox, ffmpeg)
          IN /\ tools' = r.tools
             /\ th' = [th EXCEPT
                   !["ctl"].pc = IF r.err = "none" THEN "acquired" ELSE "idle",
                   !["ctl"].res = r.err,
                   !["ctl"].arg = IF isAudioToolAvailable(tools) THEN NoInstall
                                  ELSE [brewOk |-> brewOk, sox |-> sox, ffmpeg |-> ffmpeg]]
    /\ UNCHANGED <<recVars, fs, goos, stats, apiVars, uiVars>>

AcqStart ==
    /\ th["ctl"].pc = "acquired"
    /\ StartRecording
    /\ th' = [th EXCEPT !["ctl"].pc = "idle"]
    /\ UNCHANGED <<fs, tools, goos, stats, apiVars, uiVars>>

\* the platforms, executables and builds the acquisition is run on
AcqEnvs ==
    {[os |-> "linux", tools |-> ts, build |-> "gui"] : ts \in (SUBSET AllTools) \ {{}}}
    \cup {[os |-> "darwin", tools |-> ts, build |-> b] : ts \in {{}, {"brew"}}, b \in {"tui", "gui"}}
    \cup {[os |-> "linux", tools |-> ts, build |-> b] :
             ts \in {{}, {"apt-get"}, {"yum"}, {"dnf"}}, b \in {"tui", "gui"}}
    \cup {[os |-> o, tools |-> {}, build |-> b] : o \in {"windows", "freebsd"}, b \in {"tui", "gui"}}

InitAcq ==
    /\ InitNoApi
    /\ InitNoStats
    /\ InitRecorder
    /\ InitNoUI
    /\ fs = [wav |-> NoFile, mp3 |-> "none", tempDir |-> FALSE, final |-> 0, transcripts |-> 0]
    /\ \E e \in AcqEnvs :
          /\ goos = e.os
          /\ tools = e.tools
          /\ th = [i \in {"ctl"} |-> [Thread(e.build) EXCEPT !.arg = NoInstall]]

NextAcq ==
    \/ AcqInitializeAudio
    \/ AcqStart
    \/ CtlStop
    \/ CtlStopRet
    \/ \E i \in DOMAIN th : StopStep(i)
    \/ \E t \in Tasks : TaskStep(t)
    \/ \E t \in Tasks : ProcStep(t)

SpecAcq == InitAcq /\ [][NextAcq]_vars

\* ------------------------------------------- strings, as sequences of characters
DigitChars == <<"0", "1", "2", "3", "4", "5", "6", "7", "8", "9">>

\* the decimal digits of n, zero-padded to width w
RECURSIVE Digits(_, _)
Digits(n, w) == IF w = 0 THEN <<>> ELSE Digits(n \div 10, w - 1) \o <<DigitChars[(n % 10) + 1]>>

\* strings.ReplaceAll(s, old, new) for a non-empty old
RECURSIVE ReplaceAll(_, _, _)
ReplaceAll(s, old, new) ==
    IF Len(s) < Len(old) THEN s
    ELSE IF SubSeq(s, 1, Len(old)) = old
         THEN new \o ReplaceAll(SubSeq(s, Len(old) + 1, Len(s)), old, new)
         ELSE <<Head(s)>> \o ReplaceAll(Tail(s), old, new)

\* time.Time.Format for the layouts of the program: a layout is a sequence of
\* reference-time fields and literal characters
FormatField(t, f) ==
    CASE f = "2006" -> Digits(t.year, 4)
      [] f = "01" -> Digits(t.month, 2)
      [] f = "02" -> Digits(t.day, 2)
      [] f = "15" -> Digits(t.hour, 2)
      [] f = "04" -> Digits(t.minute, 2)
      [] f = "05" -> Digits(t.second, 2)
      [] OTHER -> <<f>>

RECURSIVE Format(_, _)
Format(t, layout) ==
    IF layout = <<>> THEN <<>> ELSE FormatField(t, Head(layout)) \o Format(t, Tail(layout))

\* "2006-01-02_15-04-05"
SessionLayout == <<"2006", "-", "01", "-", "02", "_", "15", "-", "04", "-", "05">>
\* "2006-01-02 15:04:05"
SummaryLayout == <<"2006", "-", "01", "-", "02", " ", "15", ":", "04", ":", "05">>

\* ------------------------------------------------ createSessionDir, saveSummary
CleanTitle_KeepsPipe(title) ==
    LET r(s, c) == ReplaceAll(s, <<c>>, <<"_">>)
    IN  r(r(r(r(r(r(r(r(title, "/"), "\\"), ":"), "*"), "?"), "<"), ">"), "\"")

\* the nine strings.ReplaceAll of createSessionDir
CleanTitle(title) ==
    LET r(s, c) == ReplaceAll(s, <<c>>, <<"_">>)
    IN  r(r(r(r(r(r(r(r(r(title, "/"), "\\"), ":"), "*"), "?"), "|"), "<"), ">"), "\"")

SessionName_TitleOnly(title, t) == CleanTitle(title)

\* sessionName of createSessionDir
SessionName(title, t) == CleanTitle(title) \o <<"_">> \o Format(t, SessionLayout)

\* the headers of summary.txt, one character each here
TitleHeader == "Vstrecha"
DateHeader == "Data"

saveSummaryContent_NoUnescape(title, summary, t) ==
    <<TitleHeader, ":", " ">> \o title \o <<"\n">>
        \o <<DateHeader, ":", " ">> \o Format(t, SummaryLayout) \o <<"\n", "\n">>
        \o summary

\* content of saveSummary
saveSummaryContent(title, summary, t) ==
    <<TitleHeader, ":", " ">> \o title \o <<"\n">>
        \o <<DateHeader, ":", " ">> \o Format(t, SummaryLayout) \o <<"\n", "\n">>
        \o ReplaceAll(summary, <<"\\", "n">>, <<"\n">>)

\* ------------------------------------------------------- the provider's answers
\* an error value: the outermost message (op), what failed (kind) and, for an
\* answer of the provider, its status code and body
NoErr == [op |-> "", kind |-> "none", status |-> 0, body |-> ""]
Err(kind) == [op |-> "", kind |-> kind, status |-> 0, body |-> ""]

\* fmt.Errorf("...: %w", err)
Wrap(op, e) == [e EXCEPT !.op = op]

\* the content of the first choice's message: its JSON kind, its text and, for
\* an object, the fields decoded from it
NoContent == [kind |-> "unset", raw |-> <<>>, title |-> <<>>, summary |-> <<>>]

\* an answer as http.Client.Do and io.ReadAll hand it over; status 0 stands for
\* a request that got no answer
NoResponse == [status |-> 0, raw |-> "", shape |-> "none", text |-> "", content |-> NoContent]

Statuses == {200, 201, 400, 401, 429, 500}
ErrBodies == {"", "{error: quota}"}
Texts == {"", "hello"}

TitleChars == {"a", " ", "_", ".", "/", "\\", ":", "*", "?", "|", "<", ">", "\""}
SummaryChars == {"a", "\\", "n", "\n"}
ExampleTitle == <<"Q", "3", " ", "P", "l", "a", "n", "/", "R", "e", "v", "i", "e", "w">>
Titles == SeqsUpTo(TitleChars, MaxTitleLen) \cup {ExampleTitle}
Summaries == SeqsUpTo(SummaryChars, MaxSummaryLen)

\* contents that json.Unmarshal refuses for the {summary, title} struct, the
\* one it accepts without touching the struct (null), and objects
Contents ==
    {[kind |-> k, raw |-> <<k>>, title |-> <<>>, summary |-> <<>>] :
        k \in {"invalid", "number", "string", "array", "object_badtype", "null"}}
    \cup {[kind |-> "object", raw |-> <<"object">>, title |-> t, summary |-> <<"a">>] : t \in Titles}
    \cup {[kind |-> "object", raw |-> <<"object">>, title |-> <<"a">>, summary |-> s] : s \in Summaries}

FailedResponses ==
    {NoResponse} \cup
    {[status |-> st, raw |-> b, shape |-> "none", text |-> "", content |-> NoContent] :
        st \in Statuses \ {200}, b \in ErrBodies}

TranscriptionResponses ==
    FailedResponses
    \cup {[status |-> 200, raw |-> "ok", shape |-> "badjson", text |-> "", content |-> NoContent]}
    \cup {[status |-> 200, raw |-> "ok", shape |-> "ok", text |-> x, content |-> NoContent] : x \in Texts}

SummaryShapes == {"badjson", "nochoices", "emptychoices", "choicenotobject", "nomessage", "nocontent"}

SummaryResponses ==
    FailedResponses
    \cup {[status |-> 200, raw |-> "ok", shape |-> sh, text |-> "", content |-> NoContent] : sh \in SummaryShapes}
    \cup {[status |-> 200, raw |-> "ok", shape |-> "ok", text |-> "", content |-> c] : c \in Contents}

ApiError_NoBody(resp) == [op |-> "", kind |-> "api", status |-> resp.status, body |-> ""]

\* fmt.Errorf("OpenAI API error %d: %s", resp.StatusCode, string(body))
ApiError(resp) == [op |-> "", kind |-> "api", status |-> resp.status, body |-> resp.raw]

\* transcribeAudio after os.Open succeeded, on the answer to its request
transcribeAudio(resp) ==
    IF resp.status = 0 THEN [text |-> "", err |-> Err("request")]
    ELSE IF resp.status # 200 THEN [text |-> "", err |-> ApiError(resp)]
    ELSE IF resp.shape = "badjson" THEN [text |-> "", err |-> Err("decode")]
    ELSE [text |-> resp.text, err |-> NoErr]

\* json.Unmarshal([]byte(content), &result): an error for text that is not
\* JSON or does not fit the struct, none for null
UnmarshalFails(c) == c.kind \in {"invalid", "number", "string", "array", "object_badtype"}

MeetingSummary == <<"meeting_summary">>

\* generateSummary on the answer to its request; a first choice that is not an
\* object makes the unchecked type assertion panic
generateSummary(resp) ==
    LET ret(s, t, e, p) == [summary |-> s, title |-> t, err |-> e, panic |-> p]
    IN  IF resp.status = 0 THEN ret(<<>>, <<>>, Err("request"), FALSE)
        ELSE IF resp.status # 200 THEN ret(<<>>, <<>>, ApiError(resp), FALSE)
        ELSE IF resp.shape = "badjson" THEN ret(<<>>, <<>>, Err("decode"), FALSE)
        ELSE IF resp.shape \in {"nochoices", "emptychoices"}
             THEN ret(<<>>, <<>>, Err("invalid response format"), FALSE)
        ELSE IF resp.shape = "choicenotobject" THEN ret(<<>>, <<>>, NoErr, TRUE)
        ELSE IF resp.shape \in {"nomessage", "nocontent"}
             THEN ret(<<>>, <<>>, Err("invalid response format"), FALSE)
        ELSE IF UnmarshalFails(resp.content) THEN ret(resp.content.raw, MeetingSummary, NoErr, FALSE)
        ELSE ret(resp.content.summary, resp.content.title, NoErr, FALSE)

\* --------------------------------- ProcessAudio step by step, then saveSummary
Times == {[year |-> 2024, month |-> 1, day |-> 2, hour |-> 3, minute |-> 4, second |-> 5],
          [year |-> 2025, month |-> 12, day |-> 31, hour |-> 23, minute |-> 59, second |-> 59]}

\* a session directory of the save location
SessionDir(name) == [name |-> name, audio |-> "none",
                     transcript |-> [exists |-> FALSE, text |-> ""],
                     summary |-> [exists |-> FALSE, content |-> <<>>]]

\* os.MkdirAll: an existing directory is kept as it is
MkdirAll(dirs, name) ==
    IF \E d \in dirs : d.name = name THEN dirs ELSE dirs \cup {SessionDir(name)}

\* the directories with file of the one called name set to value
InDir(dirs, name, file, value) ==
    {IF d.name = name THEN [d EXCEPT ![file] = value] ELSE d : d \in dirs}

\* a call of ProcessAudio(audioFile, ..., startTime) about to run
PaCall(audioFile, t) ==
    [pc |-> "start", audioFile |-> audioFile, startTime |-> t, resp |-> NoResponse,
     transcript |-> "", summary |-> <<>>, title |-> <<>>, sessionDir |-> <<>>,
     finalAudioPath |-> "", summaryFile |-> "", err |-> NoErr]

PaFail(e) == pa' = [pa EXCEPT !.pc = "failed", !.err = e]

\* ProcessAudio: the API key
PaCheckKey ==
    /\ pa.pc = "start"
    /\ IF config.key = 0
       THEN PaFail(Err("OpenAI API key is required"))
       ELSE pa' = [pa EXCEPT !.pc = "transcribe"]
    /\ UNCHANGED <<recVars, th, fs, tools, goos, stats, store, net, config, m, g, uiq>>

PaTranscribe_Retry ==
    /\ pa.pc = "transcribe"
    /\ IF ~FileAt(fs, pa.audioFile)
       THEN /\ PaFail(Wrap("transcription failed", Err("open")))
            /\ net' = net
       ELSE \E resp \in TranscriptionResponses :
               LET r == transcribeAudio(resp)
               IN  /\ net' = Append(net, "transcriptions")
                   /\ IF r.err # NoErr
                      THEN IF Len(net) = 0
                           THEN pa' = [pa EXCEPT !.resp = resp]
                           ELSE pa' = [pa EXCEPT !.pc = "failed", !.resp = resp,
                                                 !.err = Wrap("transcription failed", r.err)]
                      ELSE IF r.text = ""
                      THEN pa' = [pa EXCEPT !.pc = "failed", !.resp = resp,
                                            !.err = Err("empty transcript received")]
                      ELSE pa' = [pa EXCEPT !.pc = "summarize", !.resp = resp,
                                            !.transcript = r.text]
    /\ UNCHANGED <<recVars, th, fs, tools, goos, stats, store, config, m, g, uiq>>

\* ProcessAudio: transcribeAudio and the check of its transcript; no request
\* is sent for a file os.Open cannot open
PaTranscribe ==
    /\ pa.pc = "transcribe"
    /\ IF ~FileAt(fs, pa.audioFile)
       THEN /\ PaFail(Wrap("transcription failed", Err("open")))
            /\ net' = net
       ELSE \E resp \in TranscriptionResponses :
               LET r == transcribeAudio(resp)
               IN  /\ net' = Append(net, "transcriptions")
                   /\ IF r.err # NoErr
                      THEN pa' = [pa EXCEPT !.pc = "failed", !.resp = resp,
                                            !.err = Wrap("transcription failed", r.err)]
                      ELSE IF r.text = ""
                      THEN pa' = [pa EXCEPT !.pc = "failed", !.resp = resp,
                                            !.err = Err("empty transcript received")]
                      ELSE pa' = [pa EXCEPT !.pc = "summarize", !.resp = resp,
                                            !.transcript = r.text]
    /\ UNCHANGED <<recVars, th, fs, tools, goos, stats, store, config, m, g, uiq>>

\* ProcessAudio: generateSummary
PaSummarize ==
    /\ pa.pc = "summarize"
    /\ \E resp \in SummaryResponses :
          LET r == generateSummary(resp)
          IN  /\ net' = Append(net, "chat/completions")
              /\ IF r.panic
                 THEN pa' = [pa EXCEPT !.pc = "panicked", !.resp = resp]
                 ELSE IF r.err # NoErr
                 THEN pa' = [pa EXCEPT !.pc = "failed", !.resp = resp,
                                       !.err = Wrap("summary generation failed", r.err)]
                 ELSE pa' = [pa EXCEPT !.pc = "mkdir", !.resp = resp,
                                       !.summary = r.summary, !.title = r.title]
    /\ UNCHANGED <<recVars, th, fs, tools, goos, stats, store, config, m, g, uiq>>

\* ProcessAudio: createSessionDir
PaCreateSessionDir ==
    /\ pa.pc = "mkdir"
    /\ \E ok \in BOOLEAN :
          IF ok
          THEN /\ store' = MkdirAll(store, SessionName(pa.title, pa.startTime))
               /\ pa' = [pa EXCEPT !.pc = "rename",
                                   !.sessionDir = SessionName(pa.title, pa.startTime)]
          ELSE /\ store' = store
               /\ PaFail(Wrap("failed to create session directory", Err("mkdir")))
    /\ UNCHANGED <<recVars, th, fs, tools, goos, stats, net, config, m, g, uiq>>

\* ProcessAudio: os.Rename of the audio file to recording.wav of the session
PaRename ==
    /\ pa.pc = "rename"
    /\ \E ok \in (IF FileAt(fs, pa.audioFile) THEN BOOLEAN ELSE {FALSE}) :
          IF ok
          THEN /\ store' = InDir(store, pa.sessionDir, "audio", pa.audioFile)
               /\ fs' = [(IF pa.audioFile = "mp3" THEN [fs EXCEPT !.mp3 = "none"]
                                                  ELSE [fs EXCEPT !.wav = NoFile])
                            EXCEPT !.final = @ + 1]
               /\ pa' = [pa EXCEPT !.pc = "transcript", !.finalAudioPath = "recording.wav"]
          ELSE /\ UNCHANGED <<store, fs>>
               /\ PaFail(Wrap("failed to move audio file", Err("rename")))
    /\ UNCHANGED <<recVars, th, tools, goos, stats, net, config, m, g, uiq>>

\* ProcessAudio: transcript.txt, whose failure is a printed warning, and return
PaWriteTranscript ==
    /\ pa.pc = "transcript"
    /\ \E ok \in BOOLEAN :
          IF ok
          THEN /\ store' = InDir(store, pa.sessionDir, "transcript",
                                 [exists |-> TRUE, text |-> pa.transcript])
               /\ fs' = [fs EXCEPT !.transcripts = @ + 1]
          ELSE UNCHANGED <<store, fs>>
    /\ pa' = [pa EXCEPT !.pc = "returned"]
    /\ UNCHANGED <<recVars, th, tools, goos, stats, net, config, m, g, uiq>>

\* the caller after ProcessAudio returned no error: saveSummary into the
\* directory of finalAudioPath, then os.RemoveAll of the temporary directory
PaSaveSummary ==
    /\ pa.pc = "returned"
    /\ \E ok \in BOOLEAN :
          IF ok
          THEN /\ store' = InDir(store, pa.sessionDir, "summary",
                                 [exists |-> TRUE,
                                  content |-> saveSummaryContent(pa.title, pa.summary, pa.startTime)])
               /\ fs' = [fs EXCEPT !.wav = NoFile, !.mp3 = "none", !.tempDir = FALSE]
               /\ pa' = [pa EXCEPT !.pc = "done", !.summaryFile = "summary.txt"]
          ELSE /\ UNCHANGED <<store, fs>>
               /\ PaFail(Err("write summary"))
    /\ UNCHANGED <<recVars, th, tools, goos, stats, net, config, m, g, uiq>>

\* a recording was saved, or its file is gone, and the front end starts processing
InitPipe ==
    /\ InitNoStats
    /\ InitStopped
    /\ audioData = <<>>
    /\ config \in {[key |-> 0], [key |-> 11]}
    /\ m = Nil
    /\ g = Nil
    /\ uiq = <<>>
    /\ th = [i \in {"ctl"} |-> Thread("ctl")]
    /\ tools = {"sox"}
    /\ goos = "linux"
    /\ \E f \in {"none", "wav", "mp3"}, t \in Times :
          /\ fs = [wav |-> IF f = "none" THEN NoFile ELSE [WavHeader(<<1, 0>>) EXCEPT !.data = <<1, 0>>],
                   mp3 |-> IF f = "mp3" THEN "full" ELSE "none",
                   tempDir |-> TRUE, final |-> 0, transcripts |-> 0]
          /\ pa = PaCall(IF f = "mp3" THEN "mp3" ELSE "wav", t)
    /\ store = {}
    /\ net = <<>>

NextPipe ==
    \/ PaCheckKey
    \/ PaTranscribe
    \/ PaSummarize
    \/ PaCreateSessionDir
    \/ PaRename
    \/ PaWriteTranscript
    \/ PaSaveSummary

SpecPipe == InitPipe /\ [][NextPipe]_vars

\* ----------------------------------------------------- fairness of SpecRec
\* goroutines and the caller of StopRecording keep running; a process whose
\* pipe has been closed ends; reads block until data or the end of the stream
FairRec ==
    /\ \A t \in Tasks :
          /\ WF_vars(TaskDefer(t)) /\ WF_vars(TaskLookPath(t)) /\ WF_vars(TaskPipe(t))
          /\ WF_vars(TaskStart(t)) /\ WF_vars(TaskLoop(t)) /\ WF_vars(TaskRead(t))
          /\ WF_vars(TaskAppend(t)) /\ WF_vars(TaskClose(t)) /\ WF_vars(TaskWait(t))
          /\ WF_vars(TaskFin(t)) /\ WF_vars(ProcSigpipe(t))
    /\ WF_vars(StopStep("ctl"))

FairSpecRec == InitRec /\ [][NextRec]_vars /\ FairRec

\* ------------------------------------------------------------------ claims

\* C1: once StopRecording has returned (and until the next StartRecording) the
\* capture loop of the session has exited and closed recordingDone exactly
\* once, and no capture goroutine is left that could append to the buffer.
C1_StopJoinsCaptureLoop ==
    joined =>
        /\ NoActiveCapture
        /\ \A t \in Tasks : task[t].chunk = <<>>
        /\ recordingDone # Nil =>
              (task[recordingDone].pc = "exit" /\ closed[recordingDone] = 1)

\* a session that captured bytes has been stopped
C1_Witness ==
    /\ joined
    /\ recordingDone # Nil
    /\ Len(audioData) > 0
    /\ th["ctl"].pc = "idle"

\* C4: every call of StopRecording eventually returns.
C4_StopRecordingReturns ==
    (th["ctl"].pc = "stop") ~> (th["ctl"].pc = "stop_ret")

\* StopRecording has passed the kill while recordAudio has not yet assigned ar.cmd
C4_Witness ==
    /\ th["ctl"].pc = "stop_wait"
    /\ th["ctl"].ch # Nil
    /\ cmd = Nil
    /\ task[th["ctl"].ch].pc \in {"spawned", "lookpath"}

\* C5: the done channel of every capture task is closed exactly once, by that
\* task, on every exit path, and never twice.
C5_DoneClosedOnce ==
    \A t \in Tasks :
        /\ closed[t] <= 1
        /\ task[t].pc = "exit" => (task[t].done = t /\ closed[t] = 1)
        /\ closed[t] = 1 => task[t].pc = "exit"

\* one task left through a set-up failure, another through the loop and Wait
C5_Witness ==
    \E t, u \in Tasks :
        /\ task[t].pc = "exit" /\ proc[t].st = "none" /\ closed[t] = 1
        /\ task[u].pc = "exit" /\ proc[u].st = "reaped" /\ closed[u] = 1

\* C6: SaveAudio on an empty buffer returns no_audio_data, creates or truncates
\* no container file and does not run the compression stage.
C6_EmptyBufferNoArtifact ==
    \A i \in DOMAIN th :
        (th[i].pc = "save_ret" /\ Len(audioData) = 0) =>
            /\ th[i].res = "no_audio_data"
            /\ ~th[i].created
            /\ ~th[i].compressed

\* nothing was captured; the files of an earlier session are still there
C6_Witness ==
    /\ th["ctl"].pc = "save_ret"
    /\ th["ctl"].res = "no_audio_data"
    /\ Len(audioData) = 0
    /\ fs.wav.exists
    /\ fs.wav.data = <<1, 0>>
    /\ fs.mp3 = "full"

\* the signed 16-bit little-endian value of two bytes
SignedLE(lo, hi) == IF hi >= 128 THEN lo + 256 * hi - 65536 ELSE lo + 256 * hi

\* the container f holds n samples, mono 44100 Hz 16 bit, which decode to the
\* little-endian pairs of B
HoldsSamplesOf(f, B, n) ==
    /\ f.exists
    /\ f.numSamples = n
    /\ f.numChannels = 1
    /\ f.sampleRate = 44100
    /\ f.bitsPerSample = 16
    /\ Len(f.data) = 2 * n
    /\ \A k \in 1..n :
          SignedLE(f.data[2 * k - 1], f.data[2 * k]) = SignedLE(B[2 * k - 1], B[2 * k])

\* SaveAudio has written the container (and not yet replaced it by a compressed file)
WavWritten(i) ==
    \/ th[i].pc = "save_compress"
    \/ th[i].pc = "save_ret" /\ th[i].res = "wav"

\* C9: for a non-empty even-length buffer B the container written by SaveAudio
\* declares len(B)/2 samples (1 channel, 44100 Hz, 16 bit) and its i-th sample
\* is the signed little-endian value of B[2i], B[2i+1].
C9_EvenBufferEncoding ==
    (WavWritten("ctl") /\ Len(audioData) > 0 /\ Len(audioData) % 2 = 0) =>
        HoldsSamplesOf(fs.wav, audioData, Len(audioData) \div 2)

\* two samples, one of them negative
C9_Witness ==
    /\ WavWritten("ctl")
    /\ audioData = <<1, 128, 255, 127>>
    /\ fs.wav.exists
    /\ fs.wav.numSamples = 2

\* C10: on an odd-length buffer B (length 1 included) SaveAudio has the outcome
\* it has on B without its last byte: same result kind, same sample count,
\* same samples.
C10_OddBufferAsTruncated ==
    LET B == SubSeq(audioData, 1, Len(audioData) - 1) IN
    (th["ctl"].pc \in {"save_create", "save_write", "save_compress", "save_ret"}
        /\ Len(audioData) % 2 = 1) =>
        /\ Len(B) = 0 => (th["ctl"].pc = "save_ret" /\ th["ctl"].res = "no_audio_data")
        /\ WavWritten("ctl") => HoldsSamplesOf(fs.wav, B, Len(B) \div 2)

\* C2: no execution of SaveAudio (past its length test, reading the capture
\* buffer) overlaps an active capture loop, the loop of a session started after
\* the stop of the previous one included.
C2_NoSaveDuringCapture ==
    \A i \in DOMAIN th :
        th[i].pc \in {"save_create", "save_write", "save_compress"} => NoActiveCapture

\* C3: in every reachable state of the application at most one capture loop is
\* active: StartRecording never runs while a loop started earlier has not yet
\* closed its recordingDone.
C3_AtMostOneCaptureLoop == Cardinality({t \in Tasks : Active(t)}) <= 1

\* C7: when the stop path of the UI (StopRecording, temporary directory, SaveAudio)
\* ends for a session that was started and in which no byte was appended, its
\* outcome is no-audio (noAudioDataMsg), never an I/O error, and no audio file
\* has been created.
C7_EmptySessionEndsNoAudio ==
    \A i \in DOMAIN th :
        (th[i].job = "stopRecording" /\ th[i].pc = "send" /\ nstarts >= 1
            /\ audioData = <<>>) =>
            /\ th[i].msg.type = "noAudioDataMsg"
            /\ ~fs.wav.exists
            /\ fs.mp3 = "none"

\* C8: in the TUI, when the program handles the key message of the 3 second tick
\* that follows a noAudioDataMsg (and keeps running), it starts a new recording
\* session: the step launches initializeAndStartRecording.
C8_TickRestartsRecording ==
    [][\A i \in DOMAIN th :
          (th[i].job = "tick3s" /\ th[i].pc = "send" /\ th'[i].job # "tick3s"
              /\ m'.state \notin {"quit", "crashed"}) =>
              \E j \in DOMAIN th : th'[j].job = "initializeAndStartRecording"]_vars

\* C11: in every reachable state the capture buffer has even length, whatever
\* sizes the reads of the capture stream return.
C11_BufferLengthEven == Len(audioData) % 2 = 0

\* C12: when compression fails (no ffmpeg or sox, or the transcoder exits with an
\* error) SaveAudio returns the uncompressed container, which is still in place
\* with the content it had before the compression step, and processRecording
\* goes on to processing with it.
C12_CompressionFailureKeepsContainer ==
    [][\A i \in 1..MaxBg :
          /\ (th[i].pc = "save_compress" /\ th'[i].pc = "save_ret" /\ th'[i].res # "mp3") =>
                (th'[i].res = "wav" /\ fs.wav.exists /\ fs'.wav = fs.wav)
          /\ (th[i].pc = "save_ret" /\ th[i].res = "wav" /\ th'[i] # th[i]) =>
                (th'[i].pc = "process" /\ fs' = fs /\ uiq' = uiq)]_vars

\* without a compression tool the session has been processed to the end
C12_Witness ==
    /\ tools = {"rec"}
    /\ Len(audioData) >= 2
    /\ fs.final = 1
    /\ g.status = "Ready to record"

\* C13: when SaveAudio returns the compressed file (verified to exist), the
\* uncompressed container has been deleted: the two are not both retained.
C13_CompressedReplacesContainer ==
    (th["ctl"].pc = "save_ret" /\ th["ctl"].compressed /\ th["ctl"].res = "mp3") =>
        (fs.mp3 # "none" /\ ~fs.wav.exists)

\* C14: compressAudio returns the compressed path and deletes the uncompressed
\* file only if the compressed output exists and is non-empty; with a zero-byte
\* output the uncompressed file is kept and returned.
C14_CompressedOnlyIfNonEmpty ==
    (th["ctl"].pc = "save_ret" /\ th["ctl"].compressed) =>
        /\ th["ctl"].res = "mp3" => fs.mp3 = "full"
        /\ fs.mp3 = "empty" => (th["ctl"].res = "wav" /\ fs.wav.exists)

\* the preference order of the specification: sox, rec, ffmpeg, none of them
FirstAvailable(installed) ==
    IF "sox" \in installed THEN "sox"
    ELSE IF "rec" \in installed THEN "rec"
    ELSE IF "ffmpeg" \in installed THEN "ffmpeg"
    ELSE "none"

\* C15: a capture process that recordAudio launched runs the first installed tool
\* in the order sox, rec, ffmpeg; a capture goroutine that ended with none of the
\* three installed launched no process and its caller holds the error
\* ToolUnavailable.
C15_FirstAvailableToolOrUnavailable ==
    \A t \in Tasks :
        /\ proc[t].st # "none" => task[t].tool = FirstAvailable(tools)
        /\ (~isAudioToolAvailable(tools) /\ task[t].pc \in {"fin", "exit"}) =>
              (proc[t].st = "none" /\ th["ctl"].res = "tool_unavailable")

\* a package manager the build can install with: Homebrew on macOS (the TUI build
\* installs Homebrew itself when it is missing), apt-get, yum or dnf on Linux
HasInstaller(build, os, installed, brewOk) ==
    \/ os = "darwin" /\ ("brew" \in installed \/ (build = "tui" /\ brewOk))
    \/ os = "linux" /\ installed \cap {"apt-get", "yum", "dnf"} # {}

\* C16: with no capture tool available, the start of a recording first runs the
\* installation, sox first and ffmpeg only when the sox installation failed;
\* StartRecording is invoked only after the installation reported success, and
\* when it reported failure the caller holds an error and no session is started.
C16_InstallBeforeStart ==
    [][/\ nstarts' # nstarts => (th["ctl"].pc = "acquired" /\ th["ctl"].res = "none")
       /\ (/\ th["ctl"].pc = "idle"
           /\ th'["ctl"] # th["ctl"]
           /\ th'["ctl"].pc \in {"idle", "acquired"}
           /\ ~isAudioToolAvailable(tools)) =>
             LET a == th'["ctl"].arg
                 ok == th'["ctl"].pc = "acquired"
             IN /\ ok => /\ HasInstaller(th["ctl"].kind, goos, tools, a.brewOk)
                         /\ a.sox # "fail" \/ a.ffmpeg # "fail"
                /\ (ok /\ a.sox = "ok") => ("sox" \in tools' /\ "ffmpeg" \notin tools')
                /\ (ok /\ a.sox = "fail" /\ a.ffmpeg = "ok") =>
                       ("ffmpeg" \in tools' /\ "sox" \notin tools')
                /\ ~ok => (th'["ctl"].res # "none" /\ nstarts' = nstarts)]_vars

C16_Witness ==
    /\ th["ctl"].arg.sox = "fail"
    /\ th["ctl"].arg.ffmpeg = "ok"
    /\ tools \cap AllTools = {"ffmpeg"}
    /\ nstarts >= 1
    /\ proc[1].st # "none"

\* the platforms without a supported installer: neither macOS nor Linux, Linux
\* without apt-get, yum and dnf, macOS without Homebrew in the GUI build
NoSupportedInstaller(build, os, installed) ==
    \/ os \notin {"darwin", "linux"}
    \/ os = "linux" /\ installed \cap {"apt-get", "yum", "dnf"} = {}
    \/ os = "darwin" /\ build = "gui" /\ "brew" \notin installed

UnsupportedPlatform == {"unsupported_os", "unsupported_linux", "homebrew_required"}

\* C17: on a platform without a supported installer and with no capture tool,
\* every tool acquisition fails with an unsupported-platform error, and no
\* recording session is ever started.
C17_NoInstallerNoSession ==
    [][(NoSupportedInstaller(th["ctl"].kind, goos, tools) /\ ~isAudioToolAvailable(tools)) =>
          /\ nstarts' = 0
          /\ th'["ctl"].pc # "acquired"
          /\ (/\ th["ctl"].pc = "idle"
              /\ th'["ctl"] # th["ctl"]
              /\ th'["ctl"].pc = "idle") =>
                    (th'["ctl"].res \in UnsupportedPlatform /\ tools' = tools)]_vars

C17_Witness ==
    /\ goos = "darwin"
    /\ th["ctl"].kind = "gui"
    /\ "brew" \notin tools
    /\ th["ctl"].res = "homebrew_required"
    /\ nstarts = 0

\* C18: when the capture goroutine of the latest session ended without a capture
\* process (cmd.StdoutPipe or cmd.Start failed), the stop path of that session
\* reports a failure to the program (errorMsg), not noAudioDataMsg and not
\* recordingStoppedMsg.
C18_SetupFailureEndsFailed ==
    \A i \in DOMAIN th :
        (/\ th[i].job = "stopRecording"
         /\ th[i].pc = "send"
         /\ nstarts >= 1
         /\ proc[nstarts].st = "none"
         /\ task[nstarts].pc \in {"fin", "exit"}) =>
            th[i].msg.type = "errorMsg"

\* the capture loop of the latest session t ended although the recording was not
\* stopped and the stream had not ended: a read failed
ReadFailed(t) ==
    /\ t = nstarts
    /\ isRecording
    /\ task[t].pc \in {"close", "wait", "fin", "exit"}
    /\ proc[t].st = "run" \/ task[t].pos < proc[t].emitted

\* C19: after a failed read has ended the capture loop, the buffer holds exactly
\* the bytes that were read before, in order, and the container a following
\* SaveAudio writes holds the samples of that partial data.
C19_ReadErrorKeepsCapturedBytes ==
    \A t \in Tasks :
        ReadFailed(t) =>
            /\ audioData = StreamSlice(t, 0, task[t].pos)
            /\ WavWritten("ctl") => HoldsSamplesOf(fs.wav, audioData, Len(audioData) \div 2)

\* a sample was captured before the failed read, and SaveAudio has written it
C19_Witness ==
    \E t \in Tasks :
        /\ ReadFailed(t)
        /\ Len(audioData) >= 2
        /\ WavWritten("ctl")
        /\ fs.wav.numSamples >= 1

\* C20: processRecording reports completion (showResults) only when no file
\* operation of the session failed: the recording was moved into the session
\* directory and the transcript file was written next to it; after any failed
\* file operation it reports an error instead.
C20_IOFailureEndsFailed ==
    [][uiq' = Append(uiq, "showResults") =>
          (fs'.final = fs.final + 1 /\ fs'.transcripts = fs.transcripts + 1)]_vars

\* C24: a call of StopRecording made after an earlier call has returned (the
\* capture loop has exited, its process is dead) never blocks on the done
\* channel, and none of its steps changes the buffer or the state of a process.
C24_StopRecordingIdempotent ==
    [][(joined /\ th["ctl"].pc \in {"stop", "stop_kill", "stop_wait"}) =>
          /\ th["ctl"].pc = "stop_wait" => ChanReady(th["ctl"].ch)
          /\ audioData' = audioData
          /\ proc' = proc
          /\ task' = task
          /\ closed' = closed
          /\ ~isRecording']_vars

\* the second call has passed the kill of a process that was already reaped
C24_Witness ==
    /\ joined
    /\ th["ctl"].pc = "stop_wait"
    /\ cmd # Nil
    /\ proc[cmd].st = "reaped"
    /\ Len(audioData) > 0

\* C28: the capture process of a task that started one has been reaped by
\* cmd.Wait before the task closes its done channel, so it is reaped whenever
\* StopRecording has returned for that session.
C28_ReapedBeforeDone ==
    \A t \in Tasks :
        proc[t].st # "none" =>
            /\ (task[t].pc \in {"fin", "exit"} \/ closed[t] >= 1) => proc[t].st = "reaped"
            /\ (joined /\ recordingDone = t) => proc[t].st = "reaped"

\* StopRecording has returned for a session whose process had been started
C28_Witness ==
    /\ joined
    /\ th["ctl"].pc = "stop_ret"
    /\ recordingDone # Nil
    /\ proc[recordingDone].st = "reaped"
    /\ closed[recordingDone] = 1

\* C25: in every state of a session the buffer is the first Len(audioData) bytes
\* the capture process of that session has emitted, in order, and between one
\* StartRecording and the next a step leaves the old buffer as a prefix of the
\* new one (so successive reads of it never see it shrink or reordered).
C25_BufferIsStreamPrefix ==
    [][/\ nstarts' >= 1 =>
            /\ Len(audioData') <= proc'[nstarts'].emitted
            /\ audioData' = StreamSlice(nstarts', 0, Len(audioData'))
       /\ nstarts' = nstarts =>
            /\ Len(audioData) <= Len(audioData')
            /\ SubSeq(audioData', 1, Len(audioData)) = audioData]_vars

\* a second chunk has been appended while the capture goes on
C25_Witness ==
    /\ nstarts >= 1
    /\ isRecording
    /\ task[nstarts].pc = "loop"
    /\ task[nstarts].pos = 2
    /\ Len(audioData) = 2
    /\ proc[nstarts].st = "run"

\* C29: the compression step of SaveAudio runs ffmpeg when ffmpeg is installed,
\* otherwise sox when sox is installed; with neither it fails (SaveAudio returns
\* the container path) and the files are what they were before.
C29_CompressorPreference ==
    [][\A i \in DOMAIN th :
          (th[i].pc = "save_compress" /\ th'[i].pc = "save_ret") =>
              /\ "ffmpeg" \in tools => th'[i].compressor = "ffmpeg"
              /\ ("ffmpeg" \notin tools /\ "sox" \in tools) => th'[i].compressor = "sox"
              /\ ("ffmpeg" \notin tools /\ "sox" \notin tools) =>
                    (th'[i].compressor = "none" /\ th'[i].res = "wav" /\ fs' = fs)]_vars

\* both tools are installed and ffmpeg has produced the compressed file
C29_Witness ==
    /\ tools = {"sox", "ffmpeg"}
    /\ th[1].pc = "save_ret"
    /\ th[1].compressor = "ffmpeg"
    /\ th[1].res = "mp3"
    /\ fs.mp3 = "full"

\* C30: for the one session of SpecStop, at most one stopRecording command
\* creates the container file (SaveAudio runs once) and at most one recording is
\* carried through the provider pipeline into a session directory.
C30_StopHandledOnce ==
    /\ Cardinality({i \in DOMAIN th : th[i].job = "stopRecording" /\ th[i].created}) <= 1
    /\ fs.final <= 1

\* a success status of HTTP
IsSuccess(status) == 200 <= status /\ status < 300

\* C21: for every answer of the provider whose status is not a success status,
\* transcribeAudio and generateSummary return an error that carries the status
\* code and the raw body of the answer, and ProcessAudio fails with that error
\* wrapped as its cause
C21_ProviderErrorPropagates ==
    /\ \A resp \in FailedResponses :
          (resp.status # 0 /\ ~IsSuccess(resp.status)) =>
             /\ transcribeAudio(resp).err = [op |-> "", kind |-> "api",
                                             status |-> resp.status, body |-> resp.raw]
             /\ generateSummary(resp).err = transcribeAudio(resp).err
    /\ (pa.resp.status # 0 /\ ~IsSuccess(pa.resp.status)) =>
          /\ pa.pc = "failed"
          /\ pa.err.kind = "api"
          /\ pa.err.status = pa.resp.status
          /\ pa.err.body = pa.resp.raw
          /\ pa.err.op = (IF Len(net) = 1 THEN "transcription failed"
                                          ELSE "summary generation failed")

C21_Witness ==
    /\ pa.pc = "failed"
    /\ Len(net) = 2
    /\ pa.resp.status = 429
    /\ pa.resp.raw = "{error: quota}"
    /\ pa.err = [op |-> "summary generation failed", kind |-> "api", status |-> 429,
                 body |-> "{error: quota}"]

\* the characters a directory name must not keep
ForbiddenChars == {"/", "\\", ":", "*", "?", "|", "<", ">", "\""}

\* the number a sequence of decimal digits writes, -1 if one is not a digit
RECURSIVE NumberOf(_)
NumberOf(s) ==
    IF s = <<>> THEN 0
    ELSE IF \E d \in 0..9 : DigitChars[d + 1] = s[Len(s)]
         THEN LET d == CHOOSE d \in 0..9 : DigitChars[d + 1] = s[Len(s)]
                  r == NumberOf(SubSeq(s, 1, Len(s) - 1))
              IN  IF r < 0 THEN -1 ELSE 10 * r + d
         ELSE -1

\* name is title with every forbidden character replaced by _, then _, then
\* the time t written as YYYY-MM-DD_HH-MM-SS
IsSessionNameOf(name, title, t) ==
    LET k == Len(title)
        ts == SubSeq(name, k + 2, Len(name))
    IN  /\ Len(name) = k + 20
        /\ \A i \in 1..k : name[i] = (IF title[i] \in ForbiddenChars THEN "_" ELSE title[i])
        /\ name[k + 1] = "_"
        /\ ts[5] = "-" /\ ts[8] = "-" /\ ts[11] = "_" /\ ts[14] = "-" /\ ts[17] = "-"
        /\ NumberOf(SubSeq(ts, 1, 4)) = t.year
        /\ NumberOf(SubSeq(ts, 6, 7)) = t.month
        /\ NumberOf(SubSeq(ts, 9, 10)) = t.day
        /\ NumberOf(SubSeq(ts, 12, 13)) = t.hour
        /\ NumberOf(SubSeq(ts, 15, 16)) = t.minute
        /\ NumberOf(SubSeq(ts, 18, 19)) = t.second

\* Q3 Plan_Review_2024-01-02_03-04-05
ExampleName ==
    <<"Q", "3", " ", "P", "l", "a", "n", "_", "R", "e", "v", "i", "e", "w", "_",
      "2", "0", "2", "4", "-", "0", "1", "-", "0", "2", "_",
      "0", "3", "-", "0", "4", "-", "0", "5">>

\* C22: createSessionDir names the directory as the title with every / \ : * ?
\* | < > " replaced by _, followed by _ and the start time as
\* YYYY-MM-DD_HH-MM-SS, and creates it; the title "Q3 Plan/Review" at
\* 2024-01-02T03:04:05 gives Q3 Plan_Review_2024-01-02_03-04-05
C22_SessionDirName ==
    /\ SessionName(ExampleTitle,
                   [year |-> 2024, month |-> 1, day |-> 2, hour |-> 3, minute |-> 4, second |-> 5])
          = ExampleName
    /\ pa.pc \in {"rename", "transcript", "returned", "done"} =>
          /\ IsSessionNameOf(pa.sessionDir, pa.title, pa.startTime)
          /\ \E d \in store : d.name = pa.sessionDir

C22_Witness ==
    /\ pa.pc = "rename"
    /\ pa.title = ExampleTitle
    /\ pa.sessionDir = ExampleName
    /\ \E d \in store : d.name = ExampleName

\* s with every real newline written as backslash, n
RECURSIVE EscapeNewlines(_)
EscapeNewlines(s) ==
    IF s = <<>> THEN <<>>
    ELSE (IF Head(s) = "\n" THEN <<"\\", "n">> ELSE <<Head(s)>>) \o EscapeNewlines(Tail(s))

\* out is s with every backslash, n replaced by a real newline: no such pair
\* is left, and the two differ in nothing else
IsUnescapedOf(out, s) ==
    /\ \A i \in 1..(Len(out) - 1) : ~(out[i] = "\\" /\ out[i + 1] = "n")
    /\ EscapeNewlines(out) = EscapeNewlines(s)

\* ts is the time t written as YYYY-MM-DD HH:MM:SS
IsTimestampOf(ts, t) ==
    /\ Len(ts) = 19
    /\ ts[5] = "-" /\ ts[8] = "-" /\ ts[11] = " " /\ ts[14] = ":" /\ ts[17] = ":"
    /\ NumberOf(SubSeq(ts, 1, 4)) = t.year
    /\ NumberOf(SubSeq(ts, 6, 7)) = t.month
    /\ NumberOf(SubSeq(ts, 9, 10)) = t.day
    /\ NumberOf(SubSeq(ts, 12, 13)) = t.hour
    /\ NumberOf(SubSeq(ts, 15, 16)) = t.minute
    /\ NumberOf(SubSeq(ts, 18, 19)) = t.second

\* C23: saveSummary writes summary.txt in the session directory with the
\* content "<title header>: <title>", newline, "<date header>: <timestamp>",
\* a blank line, then the summary in which every backslash followed by n has
\* been replaced by a real newline
C23_SummaryFile ==
    pa.pc = "done" =>
       \E d \in store :
          LET c == d.summary.content
              k == Len(pa.title)
          IN  /\ d.name = pa.sessionDir
              /\ d.summary.exists
              /\ pa.summaryFile = "summary.txt"
              /\ Len(c) >= k + 28
              /\ SubSeq(c, 1, 3) = <<TitleHeader, ":", " ">>
              /\ SubSeq(c, 4, k + 3) = pa.title
              /\ c[k + 4] = "\n"
              /\ SubSeq(c, k + 5, k + 7) = <<DateHeader, ":", " ">>
              /\ IsTimestampOf(SubSeq(c, k + 8, k + 26), pa.startTime)
              /\ SubSeq(c, k + 27, k + 28) = <<"\n", "\n">>
              /\ IsUnescapedOf(SubSeq(c, k + 29, Len(c)), pa.summary)

C23_Witness ==
    /\ pa.pc = "done"
    /\ pa.summary = <<"a", "\\", "n">>
    /\ \E d \in store :
          /\ d.summary.exists
          /\ SubSeq(d.summary.content, Len(d.summary.content) - 3, Len(d.summary.content))
                = <<"\n", "\n", "a", "\n">>

\* the position of ProcessAudio in its sequence of steps
StepRank(pc) ==
    CASE pc = "start" -> 0
      [] pc = "transcribe" -> 1
      [] pc = "summarize" -> 2
      [] pc = "mkdir" -> 3
      [] pc = "rename" -> 4
      [] pc = "transcript" -> 5
      [] pc = "returned" -> 6
      [] OTHER -> 7

\* the failures of ProcessAudio before createSessionDir
EarlyFailure(e) ==
    \/ e.kind \in {"OpenAI API key is required", "empty transcript received"}
    \/ e.op \in {"transcription failed", "summary generation failed"}

\* C26: ProcessAudio runs transcription, summarization, session-directory
\* creation, artifact move and transcript write in this order, each at most
\* once and never retried; when the API key is empty, transcription fails, the
\* transcript is empty or summarization fails, it returns an error, no session
\* directory exists and the audio file is still at its temporary path
C26_StepsOnceInOrder ==
    [][/\ StepRank(pa'.pc) > StepRank(pa.pc)
       /\ \/ net' = net
          \/ net = <<>> /\ net' = <<"transcriptions">> /\ pa.pc = "transcribe"
          \/ net = <<"transcriptions">> /\ net' = <<"transcriptions", "chat/completions">>
                /\ pa.pc = "summarize"
       /\ store' # store => (pa.pc \in {"mkdir", "rename", "transcript", "returned"}
                             /\ Cardinality(store') = 1)
       /\ store' # {} => Len(net') = 2
       /\ fs'.final # fs.final => (pa.pc = "rename" /\ fs.final = 0 /\ fs'.final = 1
                                   /\ store # {})
       /\ fs'.transcripts # fs.transcripts => (pa.pc = "transcript" /\ fs.transcripts = 0
                                               /\ fs'.transcripts = 1 /\ fs.final = 1)
       /\ (pa'.pc = "failed" /\ EarlyFailure(pa'.err)) =>
             /\ store' = {}
             /\ fs' = fs
             /\ fs'.final = 0
             /\ Len(net') >= 1 => FileAt(fs', pa'.audioFile)]_vars

C26_Witness ==
    /\ pa.pc = "failed"
    /\ pa.err.op = "summary generation failed"
    /\ net = <<"transcriptions", "chat/completions">>
    /\ store = {}
    /\ pa.audioFile = "mp3"
    /\ FileAt(fs, "mp3")
    /\ fs.final = 0

\* C27: when the content of the summarization answer is not a valid JSON
\* object, generateSummary does not fail: it returns the whole raw content as
\* the summary with the placeholder title meeting_summary, and the session is
\* persisted under that title
C27_FallbackOnNonObject ==
    (/\ Len(net) = 2
     /\ pa.resp.status = 200
     /\ pa.resp.shape = "ok"
     /\ pa.resp.content.kind \in {"invalid", "number", "string", "array", "null"}) =>
       /\ ~(pa.pc = "failed" /\ pa.err.op = "summary generation failed")
       /\ pa.summary = pa.resp.content.raw
       /\ pa.title = MeetingSummary
       /\ pa.pc \in {"rename", "transcript", "returned", "done"} =>
             pa.sessionDir = MeetingSummary \o <<"_">> \o Format(pa.startTime, SessionLayout)

\* the audio file a path names, as it is on disk
ArtifactAt(f, res) == IF res = "mp3" THEN <<"mp3", f.mp3>> ELSE <<"wav", f.wav>>

\* C31: in the GUI, the artifact one session saved in the shared temporary
\* directory is neither overwritten nor deleted by the background processing of
\* another session before it has been moved into its own session directory
C31_ArtifactNotClobbered ==
    [][\A i \in DOMAIN th :
          (/\ th[i].job = "processRecording"
           /\ th[i].pc = "process"
           /\ FileAt(fs, th[i].res)
           /\ th'[i] = th[i]) =>
             ArtifactAt(fs', th[i].res) = ArtifactAt(fs, th[i].res)]_vars

\* C32: in the GUI, whenever no start or stop handler is running,
\* App.isRecording is true exactly when the recorder has an active capture
\* loop, also when an error of an earlier session's background processing is
\* reported while a new recording is running
C32_GuiFlagMatchesRecorder ==
    GuiIdle => (g.isRecording <=> \E t \in Tasks : Active(t))

\* C33: StartRecording is only ever invoked while the stored configuration
\* holds a valid token (a key longer than 10 characters), in the TUI and in the
\* GUI
C33_StartOnlyWithValidToken ==
    [][nstarts' # nstarts => HasValidToken(config)]_vars

\* the paths SaveAudio returns, inside the temporary directory
TempPaths == {"wav", "mp3"}

\* C34: after processing succeeded in the TUI (processingCompleteMsg handled),
\* the model's audioFile is the final audio path inside the session directory,
\* so the completed view names the session directory and not the temporary one
C34_CompletedShowsSessionDir ==
    m.state = "completedView" => (m.audioFile # "" /\ m.audioFile \notin TempPaths)

\* the bytes the capture loops of the sessions before the current one have read
EarlierBytes == {StreamByte(t, k) : t \in {u \in Tasks : u < nstarts}, k \in 1..MaxStreamRec}

\* C35: the artifact of a session holds only bytes captured during that
\* session: StartRecording empties the buffer, and over start, stop, save,
\* start, stop, save no byte an earlier session's capture loop has read is in
\* the later session's buffer or in the container written from it
C35_SessionBytesOnly ==
    [][/\ nstarts' # nstarts => audioData' = <<>>
       /\ \A k \in 1..Len(audioData') : audioData'[k] \notin EarlierBytes'
       /\ \A i \in DOMAIN th' :
             (WavWritten(i)' /\ fs'.wav.exists) =>
                \A k \in 1..Len(fs'.wav.data) : fs'.wav.data[k] \notin EarlierBytes']_vars

\* both sessions captured a sample and the second one has been saved
C35_Witness ==
    /\ nstarts = 2
    /\ joined
    /\ task[1].pos >= 2
    /\ Len(audioData) >= 2
    /\ WavWritten("ctl")
    /\ fs.wav.exists
    /\ Len(fs.wav.data) >= 2
    /\ fs.wav.data[1] = StreamByte(2, 1)

\* C36: for every title, the directory createSessionDir creates is a direct
\* child of outputDir: its name holds no path separator and none of the
\* characters / \ : * ? | < > ", and is never empty, "." or ".."
C36_SessionDirIsDirectChild ==
    pa.pc \in {"rename", "transcript", "returned", "done"} =>
       /\ pa.sessionDir \notin {<<>>, <<".">>, <<".", ".">>}
       /\ \A k \in 1..Len(pa.sessionDir) : pa.sessionDir[k] \notin ForbiddenChars
       /\ \E d \in store : d.name = pa.sessionDir

\* a title that is a path of its own
C36_Witness ==
    /\ pa.pc = "rename"
    /\ pa.title = <<".", "/">>
    /\ SubSeq(pa.sessionDir, 1, 3) = <<".", "_", "_">>
    /\ \E d \in store : d.name = pa.sessionDir

\* C37: StopRecording called when no session was ever started (recordingDone
\* and cmd are nil) returns without blocking and changes nothing but the flag,
\* and a SaveAudio after it returns no_audio_data and creates no file
C37_StopBeforeAnyStart ==
    nstarts = 0 =>
       /\ recordingDone = Nil /\ cmd = Nil /\ audioData = <<>>
       /\ \A t \in Tasks : task[t] = TaskInit /\ proc[t] = ProcInit /\ closed[t] = 0
       /\ th["ctl"].pc = "stop_wait" => (th["ctl"].ch = Nil /\ ChanReady(th["ctl"].ch))
       /\ th["ctl"].pc = "stop_ret" => (joined /\ ~isRecording)
       /\ (joined /\ th["ctl"].pc = "save_ret") =>
             /\ th["ctl"].res = "no_audio_data"
             /\ ~th["ctl"].created
             /\ ~fs.wav.exists /\ fs.mp3 = "none"

\* no session was started, StopRecording has returned and so has SaveAudio
C37_Witness ==
    /\ nstarts = 0
    /\ joined
    /\ th["ctl"].pc = "save_ret"
    /\ th["ctl"].res = "no_audio_data"

\* C38: in the GUI, the updateStats goroutine startRecording has started ends
\* after the recording is stopped (which is what keeps the number of live
\* updaters at one over any number of sessions): an updater that waits on its
\* ticker when the ticker is stopped and g.isRecording is false eventually
\* returns
C38_UpdaterEndsAfterStop ==
    \A k \in Tasks :
       (stats.upd[k].pc = "wait" /\ stats.stopped[stats.upd[k].ch] /\ ~g.isRecording)
          ~> (stats.upd[k].pc = "exit")

====
